---- MODULE Spec2Model ----
\* Feature orchestration engine of maestro: dependency resolution,
\* worktree provisioning, tmux session building, prompt injection and
\* the orchestration state document.
EXTENDS Integers, Sequences, FiniteSets, TLC

\* ------------------------------------------------------------------
\* Bounds
\* ------------------------------------------------------------------
\* longest dependency list of a feature in the resolver's input family
MaxDeps == 2
\* longest list of requested feature names
MaxReq == 2
\* most sessions configured for one feature
MaxSessions == 2
\* most panes of a session
MaxPanes == 3
\* longest prompt list of a session
MaxPrompts == 2
\* most calls of createOrchestraSession for the same feature
MaxCalls == 2

\* ------------------------------------------------------------------
\* Generic helpers
\* ------------------------------------------------------------------
Range(s) == {s[i] : i \in DOMAIN s}

NoDupSeqs(S, n) ==
  {s \in UNION {[1..k -> S] : k \in 0..n} :
     \A i \in DOMAIN s : \A j \in DOMAIN s : i # j => s[i] # s[j]}

IndexOf(s, x) == CHOOSE i \in DOMAIN s : s[i] = x

\* ------------------------------------------------------------------
\* Configuration (FeatureConfig / MaestroConfig)
\* ------------------------------------------------------------------
FeatureNames == <<"auth", "api", "ui">>

Names == Range(FeatureNames)

\* base "unset" and claudeContext "" stand for the absent optional fields
FeatureConfig(n, deps, sess) ==
  [name |-> n, base |-> "unset", dependencies |-> deps, sessions |-> sess,
   claudeContext |-> ""]

SessionConfig(n, panes, layout, prompts) ==
  [name |-> n, panes |-> panes, layout |-> layout, prompts |-> prompts]

\* config.features.find(f => f.name === name); <<>> stands for undefined
FindFeature(cfg, n) ==
  LET hits == SelectSeq(cfg.features, LAMBDA f : f.name = n)
  IN IF hits = <<>> THEN <<>> ELSE <<hits[1]>>

HasFeature(cfg, n) == FindFeature(cfg, n) # <<>>

DepsOf(cfg, n) == FindFeature(cfg, n)[1].dependencies

ConfigNames(cfg) == {cfg.features[i].name : i \in DOMAIN cfg.features}

\* the complex graph of the resolver's order test
ComplexConfig ==
  [features |-> <<FeatureConfig("base1", <<>>, <<>>),
                  FeatureConfig("base2", <<>>, <<>>),
                  FeatureConfig("middle1", <<"base1">>, <<>>),
                  FeatureConfig("middle2", <<"base2">>, <<>>),
                  FeatureConfig("top", <<"middle1", "middle2">>, <<>>)>>]

\* every configuration over FeatureNames: a feature is present or not, and a
\* present feature declares up to MaxDeps distinct names (a name that is not
\* present is a dependency on an unknown feature)
MkGraphConfig(present, dep) ==
  [features |->
     LET idx == SelectSeq(<<1, 2, 3>>, LAMBDA i : present[i])
     IN [k \in 1..Len(idx) |->
           FeatureConfig(FeatureNames[idx[k]], dep[idx[k]], <<>>)]]

GraphConfigs ==
  UNION {{MkGraphConfig(present, dep) :
            dep \in {d \in [1..3 -> NoDupSeqs(Names, MaxDeps)] :
                       \A i \in 1..3 : ~present[i] => d[i] = <<>>}} :
         present \in [1..3 -> BOOLEAN]}

ResolveConfigs == GraphConfigs \cup {ComplexConfig}

\* ------------------------------------------------------------------
\* Session names (utils/orchestration.ts, getSessionName)
\* ------------------------------------------------------------------
SessionNames == <<"dev", "unit_test", "db">>

\* the characters of every name of the model
NameChars ==
  [auth |-> <<"a", "u", "t", "h">>,
   api |-> <<"a", "p", "i">>,
   ui |-> <<"u", "i">>,
   dev |-> <<"d", "e", "v">>,
   unit_test |-> <<"u", "n", "i", "t", "_", "t", "e", "s", "t">>,
   db |-> <<"d", "b">>]

\* names with characters that a record field cannot hold
OtherNameChars ==
  ("auth-api" :>
     <<"a", "u", "t", "h", "-", "a", "p", "i">>) @@
  ("payment_gateway" :>
     <<"p", "a", "y", "m", "e", "n", "t", "_", "g", "a", "t", "e", "w",
     "a", "y">>) @@
  ("api-dev" :>
     <<"a", "p", "i", "-", "d", "e", "v">>) @@
  ("unit-test" :>
     <<"u", "n", "i", "t", "-", "t", "e", "s", "t">>) @@
  ("integration_tests" :>
     <<"i", "n", "t", "e", "g", "r", "a", "t", "i", "o", "n", "_", "t",
     "e", "s", "t", "s">>)

Chars(name) ==
  IF name \in DOMAIN NameChars THEN NameChars[name] ELSE OtherNameChars[name]

\* [a-zA-Z0-9-]
AllowedChars ==
  {"a", "b", "c", "d", "e", "f", "g", "h", "i", "j", "k", "l", "m",
   "n", "o", "p", "q", "r", "s", "t", "u", "v", "w", "x", "y", "z",
   "A", "B", "C", "D", "E", "F", "G", "H", "I", "J", "K", "L", "M",
   "N", "O", "P", "Q", "R", "S", "T", "U", "V", "W", "X", "Y", "Z",
   "0", "1", "2", "3", "4", "5", "6", "7", "8", "9", "-"}

\* bug variant: the underscore is taken as an allowed character
Sanitize_UnderscoreKept(cs) ==
  [i \in DOMAIN cs |-> IF cs[i] \in AllowedChars \cup {"_"} THEN cs[i] ELSE "-"]

\* .replace(/[^a-zA-Z0-9-]/g, '-')
Sanitize(cs) == [i \in DOMAIN cs |-> IF cs[i] \in AllowedChars THEN cs[i] ELSE "-"]

MaxSessionNameLen == 30

\* .substring(0, 30)
Truncate(cs) ==
  SubSeq(cs, 1, IF Len(cs) < MaxSessionNameLen THEN Len(cs) ELSE MaxSessionNameLen)

getSessionName(feature, session) ==
  Truncate(Sanitize(Chars(feature) \o <<"-">> \o Chars(session)))

\* feature and session names of the session id family: alphanumeric with
\* dash or underscore, short and long
IdFeatureNames == {"auth", "auth-api", "payment_gateway"}

IdSessionNames == {"dev", "api-dev", "unit_test", "unit-test", "integration_tests"}

\* most features of a configuration of the session id family
MaxIdFeatures == 2

\* ------------------------------------------------------------------
\* Session and run configurations
\* ------------------------------------------------------------------
\* "none" stands for an unset layout
Layouts ==
  {"none", "even-horizontal", "even-vertical", "main-horizontal",
   "main-vertical", "tiled"}

\* names that tmux send-keys (called without -l) looks up as keys
TmuxKeyNames == {"C-c", "Enter"}

\* what a pane receives for one argument of send-keys: the named key when
\* the argument is a key name, otherwise its characters
KeyLookup(arg) ==
  IF arg \in TmuxKeyNames
  THEN [kind |-> "key", value |-> arg]
  ELSE [kind |-> "text", value |-> arg]

\* prompts of the configuration: empty, a command, a text that is a key name
PromptTexts == {"", "vim", "Enter"}

PromptLists == UNION {[1..n -> PromptTexts] : n \in 0..MaxPrompts}

\* session shapes (the name is given when the session is placed in a feature)
SessionShapes ==
  {SessionConfig("dev", panes, layout, prompts) :
     panes \in 1..MaxPanes, layout \in Layouts, prompts \in PromptLists}

\* the smaller family used for whole orchestration runs: at most one
\* prompt, or a command for each of two panes
RunSessionShapes ==
  {sh \in SessionShapes :
     /\ sh.panes <= 2
     /\ sh.layout \in {"none", "tiled"}
     /\ Len(sh.prompts) <= 1 \/ sh.prompts = <<"vim", "vim">>}

\* n sessions of one shape, named after SessionNames
SessionsOf(shape, n) == [j \in 1..n |-> [shape EXCEPT !.name = SessionNames[j]]]

\* dependency graphs of the orchestration runs: a chain listed against its
\* dependency order, independent features, a three-feature cycle, a
\* self-dependency and a dependency on an unknown feature
RunGraphs ==
  {<<FeatureConfig("ui", <<"auth", "api">>, <<>>),
     FeatureConfig("api", <<"auth">>, <<>>),
     FeatureConfig("auth", <<>>, <<>>)>>,
   <<FeatureConfig("auth", <<>>, <<>>),
     FeatureConfig("api", <<>>, <<>>),
     FeatureConfig("ui", <<>>, <<>>)>>,
   <<FeatureConfig("auth", <<"ui">>, <<>>),
     FeatureConfig("api", <<"auth">>, <<>>),
     FeatureConfig("ui", <<"api">>, <<>>)>>,
   <<FeatureConfig("auth", <<"auth">>, <<>>),
     FeatureConfig("api", <<>>, <<>>)>>,
   <<FeatureConfig("auth", <<"ui">>, <<>>),
     FeatureConfig("api", <<"auth">>, <<>>)>>}

\* every feature of the graph gets the sessions; auth carries a context and
\* api its own base branch
Furnish(graph, sess) ==
  [features |->
     [i \in DOMAIN graph |->
        [graph[i] EXCEPT
           !.sessions = sess,
           !.claudeContext = IF graph[i].name = "auth" THEN "ctx" ELSE "",
           !.base = IF graph[i].name = "api" THEN "develop" ELSE "unset"]]]

RunConfigs ==
  {Furnish(g, SessionsOf(sh, n)) :
     g \in RunGraphs, sh \in RunSessionShapes, n \in 0..MaxSessions}

\* the single feature handed to createOrchestraSession
SessionFeatureConfigs ==
  {Furnish(<<FeatureConfig("auth", <<>>, <<>>)>>, SessionsOf(sh, n)) :
     sh \in SessionShapes, n \in 0..MaxSessions}

\* configurations of the session id family: distinct feature names, and
\* session names distinct within each feature
IdSessionLists ==
  {[j \in DOMAIN ns |-> SessionConfig(ns[j], 1, "none", <<>>)] :
     ns \in NoDupSeqs(IdSessionNames, MaxSessions) \ {<<>>}}

IdConfigs ==
  UNION {{[features |-> [i \in DOMAIN fs |-> FeatureConfig(fs[i], <<>>, sess[i])]] :
            sess \in [DOMAIN fs -> IdSessionLists]} :
         fs \in NoDupSeqs(IdFeatureNames, MaxIdFeatures) \ {<<>>}}

\* every session id of a configuration
SessionIds(cfg) ==
  UNION {{getSessionName(cfg.features[i].name, cfg.features[i].sessions[j].name) :
            j \in DOMAIN cfg.features[i].sessions} :
         i \in DOMAIN cfg.features}

\* ------------------------------------------------------------------
\* Dependency resolver (utils/maestro.ts, resolveDependencies)
\* ------------------------------------------------------------------
RECURSIVE visit(_, _, _)
RECURSIVE visitAll(_, _, _)

\* bug variant: the node is appended before its dependencies (pre-order)
visit_PreOrder(cfg, n, st) ==
  IF st.err THEN st
  ELSE IF n \in Range(st.order) THEN st
  ELSE IF n \in st.visiting THEN [st EXCEPT !.err = TRUE]
  ELSE IF ~HasFeature(cfg, n) THEN st
  ELSE LET s1 == visitAll(cfg, DepsOf(cfg, n),
                          [st EXCEPT !.visiting = @ \cup {n},
                                     !.order = Append(@, n)])
       IN IF s1.err THEN s1 ELSE [s1 EXCEPT !.visiting = @ \ {n}]

\* bug variant: a node met again while in progress is taken as done
visit_CycleIgnored(cfg, n, st) ==
  IF st.err THEN st
  ELSE IF n \in Range(st.order) THEN st
  ELSE IF n \in st.visiting THEN st
  ELSE IF ~HasFeature(cfg, n) THEN st
  ELSE LET s1 == visitAll(cfg, DepsOf(cfg, n),
                          [st EXCEPT !.visiting = @ \cup {n}])
       IN IF s1.err THEN s1
          ELSE [s1 EXCEPT !.visiting = @ \ {n}, !.order = Append(@, n)]

\* bug variant: a name missing from the feature map is appended like a leaf
visit_UnknownKept(cfg, n, st) ==
  IF st.err THEN st
  ELSE IF n \in Range(st.order) THEN st
  ELSE IF n \in st.visiting THEN [st EXCEPT !.err = TRUE]
  ELSE IF ~HasFeature(cfg, n) THEN [st EXCEPT !.order = Append(@, n)]
  ELSE LET s1 == visitAll(cfg, DepsOf(cfg, n),
                          [st EXCEPT !.visiting = @ \cup {n}])
       IN IF s1.err THEN s1
          ELSE [s1 EXCEPT !.visiting = @ \ {n}, !.order = Append(@, n)]

\* depth-first visit of one name; st = [order, visiting, err]
visit(cfg, n, st) ==
  IF st.err THEN st
  ELSE IF n \in Range(st.order) THEN st
  ELSE IF n \in st.visiting THEN [st EXCEPT !.err = TRUE]
  ELSE IF ~HasFeature(cfg, n) THEN st
  ELSE LET s1 == visitAll(cfg, DepsOf(cfg, n),
                          [st EXCEPT !.visiting = @ \cup {n}])
       IN IF s1.err THEN s1
          ELSE [s1 EXCEPT !.visiting = @ \ {n}, !.order = Append(@, n)]

\* bug variant: the names are visited last to first
visitAll_Reversed(cfg, names, st) ==
  IF names = <<>> THEN st
  ELSE visitAll(cfg, SubSeq(names, 1, Len(names) - 1),
                visit(cfg, names[Len(names)], st))

visitAll(cfg, names, st) ==
  IF names = <<>> THEN st
  ELSE visitAll(cfg, Tail(names), visit(cfg, Head(names), st))

resolveDependencies(req, cfg) ==
  LET st == visitAll(cfg, req, [order |-> <<>>, visiting |-> {}, err |-> FALSE])
  IN IF st.err THEN [status |-> "error", order |-> <<>>]
     ELSE [status |-> "ok", order |-> st.order]

\* ------------------------------------------------------------------
\* State
\* ------------------------------------------------------------------
VARIABLES
  config,          \* the loaded configuration
  requested,       \* the names handed to the resolver
  entry,           \* "resolve", "implement" or "createOrchestraSession"
  options,         \* command options of the current call
  pc,              \* stage of the current call
  error,           \* stage whose failure ended the call, "none" otherwise
  calls,           \* number of calls started
  resolved,        \* result of the resolver
  orderedFeatures, \* features in resolved order
  provIdx,         \* next feature of the provisioning loop
  inflight,        \* features whose worktree creation is outstanding
  worktreePaths,   \* the map built by createWorktrees
  worktrees,       \* branches that have a worktree (git)
  gitCalls,        \* worktree commands issued in the current call
  fi,              \* feature of the session loop
  si,              \* session of the session loop
  bpc,             \* position inside the session loop body
  k,               \* split index / prompt index
  sessionName,     \* id returned by the last createTmuxSession
  featureSessions, \* ids of the current feature
  sessionMap,      \* feature name -> ids
  tmux,            \* session id -> number of panes (tmux server)
  tmuxCalls,       \* tmux commands issued in the current call
  claudeMd,        \* features whose worktree has a written CLAUDE.md
  stateDoc,        \* <<>> when .maestro/orchestra.state.json is absent
  loaded,          \* outcome of the last loadOrchestraState
  attach,          \* outcome of the orchestra attach action
  runs,            \* the two concurrent runs of the pair specification
  fileCalls        \* open and write operations on the state document

\* what no step of a single call changes: its inputs, and the variables of
\* the pair specification
inputVars == <<config, requested, entry, runs, fileCalls>>
ctlVars == <<options, pc, error, calls>>
resVars == <<resolved, orderedFeatures>>
provVars == <<provIdx, inflight, worktreePaths>>
gitVars == <<worktrees, gitCalls>>
loopVars == <<fi, si, bpc, k, sessionName, featureSessions, sessionMap>>
tmuxVars == <<tmux, tmuxCalls>>
fileVars == <<claudeMd, stateDoc, loaded, attach>>

vars ==
  <<inputVars, ctlVars, resVars, provVars, gitVars, loopVars, tmuxVars, fileVars>>

NotCalled == [status |-> "none", order |-> <<>>]

\* the attach action has not been run
NotAttached == [done |-> FALSE, session |-> <<>>, exited |-> FALSE, memory |-> <<>>]

\* loadOrchestraState has not been called
NotLoaded ==
  [called |-> FALSE, at |-> "none", raised |-> FALSE, found |-> FALSE, state |-> <<>>]

EmptyMap == [x \in {} |-> <<>>]

\* a single call runs alone
SingleRun == runs = <<>> /\ fileCalls = <<>>

NoOptions == [dryRun |-> FALSE, sequential |-> FALSE, skipWorktree |-> FALSE]

\* the variables local to one call, before the call has done anything
FreshCall ==
  /\ error = "none"
  /\ resolved = NotCalled
  /\ orderedFeatures = <<>>
  /\ provIdx = 1
  /\ inflight = {}
  /\ worktreePaths = EmptyMap
  /\ gitCalls = <<>>
  /\ fi = 1
  /\ si = 1
  /\ bpc = "idle"
  /\ k = 0
  /\ sessionName = <<>>
  /\ featureSessions = <<>>
  /\ sessionMap = EmptyMap
  /\ tmuxCalls = <<>>

\* nothing exists yet: no worktree, no tmux session, no file
EmptyWorld ==
  /\ worktrees = {}
  /\ tmux = EmptyMap
  /\ claudeMd = {}
  /\ stateDoc = <<>>
  /\ loaded = NotLoaded
  /\ attach = NotAttached

\* ------------------------------------------------------------------
\* Resolver specification: inputs drawn from the bounded family
\* ------------------------------------------------------------------
InitResolve ==
  /\ config \in ResolveConfigs
  /\ requested \in NoDupSeqs(ConfigNames(config), MaxReq)
  /\ entry = "resolve"
  /\ options = NoOptions
  /\ pc = "start"
  /\ calls = 1
  /\ FreshCall
  /\ EmptyWorld
  /\ SingleRun

ResolveCall ==
  /\ entry = "resolve"
  /\ resolved.status = "none"
  /\ resolved' = resolveDependencies(requested, config)
  /\ UNCHANGED <<inputVars, ctlVars, orderedFeatures, provVars, gitVars,
                 loopVars, tmuxVars, fileVars>>

NextResolve == ResolveCall

SpecResolve == InitResolve /\ [][NextResolve]_vars

\* ------------------------------------------------------------------
\* Session id specification: getSessionName applied to every configured
\* session of a configuration of the family
\* ------------------------------------------------------------------
InitNames ==
  /\ config \in IdConfigs
  /\ requested = <<>>
  /\ entry = "getSessionName"
  /\ options = NoOptions
  /\ pc = "start"
  /\ calls = 1
  /\ FreshCall
  /\ EmptyWorld
  /\ SingleRun

SessionNameCall ==
  /\ entry = "getSessionName" /\ pc = "start"
  /\ pc' = "done"
  /\ sessionMap' =
       [n \in ConfigNames(config) |->
          LET f == FindFeature(config, n)[1]
          IN [j \in DOMAIN f.sessions |-> getSessionName(f.name, f.sessions[j].name)]]
  /\ UNCHANGED <<inputVars, options, error, calls, resVars, provVars, gitVars, fi, si,
                 bpc, k, sessionName, featureSessions, tmuxVars, fileVars>>

NextNames == SessionNameCall

SpecNames == InitNames /\ [][NextNames]_vars

\* ------------------------------------------------------------------
\* Helpers of the orchestration run
\* ------------------------------------------------------------------
Put(f, key, val) == [x \in DOMAIN f \cup {key} |-> IF x = key THEN val ELSE f[x]]

WorktreePath(name) == <<"worktrees", name>>

\* bug variant: without settings the creation is sequential
Parallel_SequentialByDefault ==
  /\ ~options.sequential
  /\ IF "settings" \in DOMAIN config THEN config.settings.parallel ELSE FALSE

\* !options.sequential && (config.settings?.parallel ?? true)
Parallel ==
  /\ ~options.sequential
  /\ IF "settings" \in DOMAIN config THEN config.settings.parallel ELSE TRUE

\* bug variant: the features are taken in configuration order
OrderedFeaturesOf_ConfigOrder(cfg, order) ==
  SelectSeq(cfg.features, LAMBDA f : f.name \in Range(order))

\* featureOrder.map(name => config.features.find(...)).filter(f => f !== undefined)
OrderedFeaturesOf(cfg, order) ==
  LET known == SelectSeq(order, LAMBDA n : HasFeature(cfg, n))
  IN [i \in DOMAIN known |-> FindFeature(cfg, known[i])[1]]

\* the error leaves the call: catch block with process.exit(1) in
\* implementCommand, rejection of the promise in createOrchestraSession
Fail(stage) ==
  /\ pc' = "failed"
  /\ error' = stage
  /\ UNCHANGED <<options, calls>>

Goto(stage) ==
  /\ pc' = stage
  /\ UNCHANGED <<options, error, calls>>

\* bug variant: the session loop walks the configuration, not the resolved order
CurFeature_ConfigOrder ==
  IF entry = "implement" THEN config.features[fi] ELSE config.features[1]

CurFeature == IF entry = "implement" THEN orderedFeatures[fi] ELSE config.features[1]

CurSession == CurFeature.sessions[si]

CurId == getSessionName(CurFeature.name, CurSession.name)

TmuxCall(cmd, pane, arg) ==
  [cmd |-> cmd, session |-> CurId, pane |-> pane, arg |-> arg]

\* bug variant: without a directional layout odd indexes split horizontally
SplitFlag_ParitySwapped(session, i) ==
  IF session.layout = "even-horizontal" \/ session.layout = "main-horizontal" THEN "-h"
  ELSE IF session.layout = "even-vertical" \/ session.layout = "main-vertical" THEN "-v"
  ELSE IF i % 2 = 0 THEN "-v"
  ELSE "-h"

\* orientation of the split that creates pane i
SplitFlag(session, i) ==
  IF session.layout = "even-horizontal" \/ session.layout = "main-horizontal" THEN "-h"
  ELSE IF session.layout = "even-vertical" \/ session.layout = "main-vertical" THEN "-v"
  ELSE IF i % 2 = 0 THEN "-h"
  ELSE "-v"

\* bug variant: select-layout is issued whether or not a layout is set
AfterSplits_LayoutAlways(session) == "layout"

\* where createTmuxSession continues once the split loop is over
AfterSplits(session) == IF session.layout # "none" THEN "layout" ELSE "rename"

ExecutionHint == " # [Press Enter to execute]"

\* bug variant: the features are listed in configuration order
BuildState_ConfigOrder ==
  [status |-> "active",
   features |->
     [i \in DOMAIN config.features |->
        [feature |-> config.features[i].name,
         worktree_path |->
           IF config.features[i].name \in DOMAIN worktreePaths
           THEN worktreePaths[config.features[i].name] ELSE <<>>,
         status |-> "created",
         sessions |->
           [j \in DOMAIN config.features[i].sessions |->
              [name |-> config.features[i].sessions[j].name,
               session_name |->
                 Sanitize(Chars(config.features[i].name) \o <<"-">>
                          \o Chars(config.features[i].sessions[j].name)),
               panes |-> config.features[i].sessions[j].panes,
               status |-> "created",
               attached_count |-> 0]]]]]

\* the OrchestraState implementCommand builds from the ordered features and
\* the worktree paths (timestamps are left out)
StateOf(features, paths) ==
  [status |-> "active",
   features |->
     [i \in DOMAIN features |->
        [feature |-> features[i].name,
         worktree_path |->
           IF features[i].name \in DOMAIN paths
           THEN paths[features[i].name] ELSE <<>>,
         status |-> "created",
         sessions |->
           [j \in DOMAIN features[i].sessions |->
              [name |-> features[i].sessions[j].name,
               session_name |->
                 Sanitize(Chars(features[i].name) \o <<"-">>
                          \o Chars(features[i].sessions[j].name)),
               panes |-> features[i].sessions[j].panes,
               status |-> "created",
               attached_count |-> 0]]]]]

\* the OrchestraState written at the end of implementCommand
BuildState == StateOf(orderedFeatures, worktreePaths)

\* ------------------------------------------------------------------
\* The state document: JSON.stringify on save, JSON.parse on load
\* ------------------------------------------------------------------
\* a JSON text is its sequence of tokens; v holds the value of a string or
\* number token
Tok(t, v) == [t |-> t, v |-> v]

Punct(t) == Tok(t, <<>>)

JStr(x) == <<Tok("string", <<x>>)>>

JNum(n) == <<Tok("number", <<n>>)>>

RECURSIVE JoinComma(_)
JoinComma(parts) ==
  IF parts = <<>> THEN <<>>
  ELSE IF Len(parts) = 1 THEN parts[1]
  ELSE parts[1] \o <<Punct(",")>> \o JoinComma(Tail(parts))

JArr(items) == <<Punct("[")>> \o JoinComma(items) \o <<Punct("]")>>

\* members: a sequence of <<key, tokens of the value>>, in property order
JObj(members) ==
  <<Punct("{")>>
  \o JoinComma([i \in DOMAIN members |->
                  JStr(members[i][1]) \o <<Punct(":")>> \o members[i][2]])
  \o <<Punct("}")>>

stringifySession(ss) ==
  JObj(<<<<"name", JStr(ss.name)>>,
         <<"session_name", JStr(ss.session_name)>>,
         <<"panes", JNum(ss.panes)>>,
         <<"status", JStr(ss.status)>>,
         <<"attached_count", JNum(ss.attached_count)>>>>)

stringifyFeature(fs) ==
  JObj(<<<<"feature", JStr(fs.feature)>>,
         <<"worktree_path", JStr(fs.worktree_path)>>,
         <<"status", JStr(fs.status)>>,
         <<"sessions",
           JArr([j \in DOMAIN fs.sessions |-> stringifySession(fs.sessions[j])])>>>>)

\* JSON.stringify(state, null, 2)
JSONstringify(state) ==
  JObj(<<<<"status", JStr(state.status)>>,
         <<"features",
           JArr([i \in DOMAIN state.features |-> stringifyFeature(state.features[i])])>>>>)

ParseError == [ok |-> FALSE, val |-> <<>>, pos |-> 0]

Parsed(val, pos) == [ok |-> TRUE, val |-> val, pos |-> pos]

TokAt(toks, pos) == IF pos \in DOMAIN toks THEN toks[pos].t ELSE "eof"

RECURSIVE parseValue(_, _)
RECURSIVE parseItems(_, _, _)
RECURSIVE parseMembers(_, _, _)

parseValue(toks, pos) ==
  LET t == TokAt(toks, pos)
  IN IF t \in {"string", "number"} THEN Parsed(toks[pos].v[1], pos + 1)
     ELSE IF t = "["
     THEN IF TokAt(toks, pos + 1) = "]" THEN Parsed(<<>>, pos + 2)
          ELSE parseItems(toks, pos + 1, <<>>)
     ELSE IF t = "{"
     THEN IF TokAt(toks, pos + 1) = "}" THEN Parsed([x \in {} |-> <<>>], pos + 2)
          ELSE parseMembers(toks, pos + 1, [x \in {} |-> <<>>])
     ELSE ParseError

parseItems(toks, pos, acc) ==
  LET r == parseValue(toks, pos)
  IN IF ~r.ok THEN ParseError
     ELSE IF TokAt(toks, r.pos) = "," THEN parseItems(toks, r.pos + 1, Append(acc, r.val))
     ELSE IF TokAt(toks, r.pos) = "]" THEN Parsed(Append(acc, r.val), r.pos + 1)
     ELSE ParseError

parseMembers(toks, pos, acc) ==
  IF TokAt(toks, pos) # "string" \/ TokAt(toks, pos + 1) # ":" THEN ParseError
  ELSE LET key == toks[pos].v[1]
           r == parseValue(toks, pos + 2)
           obj == [x \in DOMAIN acc \cup {key} |-> IF x = key THEN r.val ELSE acc[x]]
       IN IF ~r.ok THEN ParseError
          ELSE IF TokAt(toks, r.pos) = "," THEN parseMembers(toks, r.pos + 1, obj)
          ELSE IF TokAt(toks, r.pos) = "}" THEN Parsed(obj, r.pos + 1)
          ELSE ParseError

\* JSON.parse(content): ok is FALSE where it throws
JSONparse(toks) ==
  LET r == parseValue(toks, 1)
  IN IF r.ok /\ r.pos = Len(toks) + 1 THEN r ELSE ParseError

LoadOutcome(raised, found, state) ==
  [raised |-> raised, found |-> found, state |-> state]

\* bug variant: the error of readFile on a missing document is not caught
loadOrchestraState_Uncaught(doc) ==
  IF doc = <<>> THEN LoadOutcome(TRUE, FALSE, <<>>)
  ELSE LET r == JSONparse(doc[1])
       IN IF r.ok THEN LoadOutcome(FALSE, TRUE, <<r.val>>)
          ELSE LoadOutcome(FALSE, FALSE, <<>>)

\* try { readFile, JSON.parse } catch { return null }
loadOrchestraState(doc) ==
  IF doc = <<>> THEN LoadOutcome(FALSE, FALSE, <<>>)
  ELSE LET r == JSONparse(doc[1])
       IN IF r.ok THEN LoadOutcome(FALSE, TRUE, <<r.val>>)
          ELSE LoadOutcome(FALSE, FALSE, <<>>)

\* ------------------------------------------------------------------
\* implementCommand
\* ------------------------------------------------------------------
\* tmux installed, inside a git repository, orchestration plan loaded
Preflight(ok) ==
  /\ entry = "implement" /\ pc = "start"
  /\ IF ok THEN Goto("validate") ELSE Fail("preflight")
  /\ UNCHANGED <<inputVars, resVars, provVars, gitVars, loopVars, tmuxVars, fileVars>>

\* validateDependencies(config): its verdict is an input of the command
Validate(valid) ==
  /\ entry = "implement" /\ pc = "validate"
  /\ IF valid THEN Goto("resolve") ELSE Fail("validate")
  /\ UNCHANGED <<inputVars, resVars, provVars, gitVars, loopVars, tmuxVars, fileVars>>

\* bug variant: the worktrees are requested before the order is computed
Resolve_AfterCreation ==
  /\ entry = "implement" /\ pc = "resolve"
  /\ LET r == resolveDependencies(requested, config)
     IN /\ resolved' = r
        /\ IF r.status = "error"
           THEN /\ Fail("resolve")
                /\ worktrees' = worktrees \cup ConfigNames(config)
                /\ UNCHANGED orderedFeatures
           ELSE IF options.dryRun
           THEN Goto("done") /\ UNCHANGED <<orderedFeatures, worktrees>>
           ELSE /\ Goto("provision")
                /\ orderedFeatures' = OrderedFeaturesOf(config, r.order)
                /\ UNCHANGED worktrees
  /\ UNCHANGED <<inputVars, provVars, gitCalls, loopVars, tmuxVars, fileVars>>

\* bug variant: the dry-run option is not looked at
Resolve_DryRunIgnored ==
  /\ entry = "implement" /\ pc = "resolve"
  /\ LET r == resolveDependencies(requested, config)
     IN /\ resolved' = r
        /\ IF r.status = "error"
           THEN Fail("resolve") /\ UNCHANGED orderedFeatures
           ELSE /\ Goto("provision")
                /\ orderedFeatures' = OrderedFeaturesOf(config, r.order)
  /\ UNCHANGED <<inputVars, provVars, gitVars, loopVars, tmuxVars, fileVars>>

\* getTopologicalOrder(config), in the dry run and in the real run
Resolve ==
  /\ entry = "implement" /\ pc = "resolve"
  /\ LET r == resolveDependencies(requested, config)
     IN /\ resolved' = r
        /\ IF r.status = "error"
           THEN Fail("resolve") /\ UNCHANGED orderedFeatures
           ELSE IF options.dryRun
           THEN Goto("done") /\ UNCHANGED orderedFeatures
           ELSE /\ Goto("provision")
                /\ orderedFeatures' = OrderedFeaturesOf(config, r.order)
  /\ UNCHANGED <<inputVars, provVars, gitVars, loopVars, tmuxVars, fileVars>>

CreateCall(feature) ==
  [op |-> "createWorktree", branch |-> feature.name, base |-> "main"]

\* bug variant: the loop goes on to the next feature after a failed creation
ProvisionSequential_ContinueAfterFailure(ok) ==
  /\ entry = "implement" /\ pc = "provision" /\ ~Parallel
  /\ provIdx <= Len(orderedFeatures)
  /\ LET f == orderedFeatures[provIdx]
     IN /\ gitCalls' = Append(gitCalls, CreateCall(f))
        /\ ok => f.name \notin worktrees
        /\ provIdx' = provIdx + 1
        /\ Goto("provision")
        /\ IF ok
           THEN /\ worktrees' = worktrees \cup {f.name}
                /\ worktreePaths' = Put(worktreePaths, f.name, WorktreePath(f.name))
           ELSE UNCHANGED <<worktrees, worktreePaths>>
  /\ UNCHANGED <<inputVars, resVars, inflight, loopVars, tmuxVars, fileVars>>

\* createWorktrees, sequential: for (const feature of features) await createWorktree(feature)
ProvisionSequential(ok) ==
  /\ entry = "implement" /\ pc = "provision" /\ ~Parallel
  /\ provIdx <= Len(orderedFeatures)
  /\ LET f == orderedFeatures[provIdx]
     IN /\ gitCalls' = Append(gitCalls, CreateCall(f))
        /\ ok => f.name \notin worktrees
        /\ IF ok
           THEN /\ worktrees' = worktrees \cup {f.name}
                /\ worktreePaths' = Put(worktreePaths, f.name, WorktreePath(f.name))
                /\ provIdx' = provIdx + 1
                /\ Goto("provision")
           ELSE /\ Fail("provision")
                /\ UNCHANGED <<worktrees, worktreePaths, provIdx>>
  /\ UNCHANGED <<inputVars, resVars, inflight, loopVars, tmuxVars, fileVars>>

\* createWorktrees, parallel: features.map(createWorktree) issues every creation
ProvisionIssueAll ==
  /\ entry = "implement" /\ pc = "provision" /\ Parallel
  /\ provIdx <= Len(orderedFeatures)
  /\ gitCalls' = gitCalls \o [i \in DOMAIN orderedFeatures |-> CreateCall(orderedFeatures[i])]
  /\ inflight' = {orderedFeatures[i].name : i \in DOMAIN orderedFeatures}
  /\ provIdx' = Len(orderedFeatures) + 1
  /\ UNCHANGED <<inputVars, ctlVars, resVars, worktreePaths, worktrees, loopVars,
                 tmuxVars, fileVars>>

\* bug variant: the path of a created worktree is not put into the map
WorktreeDone_PathNotRecorded(name, ok) ==
  /\ entry = "implement" /\ pc = "provision"
  /\ name \in inflight
  /\ ok => name \notin worktrees
  /\ inflight' = inflight \ {name}
  /\ IF ok
     THEN /\ worktrees' = worktrees \cup {name}
          /\ Goto("provision")
     ELSE /\ Fail("provision")
          /\ UNCHANGED worktrees
  /\ UNCHANGED <<inputVars, resVars, provIdx, worktreePaths, gitCalls, loopVars,
                 tmuxVars, fileVars>>

\* one outstanding creation ends; Promise.all rejects on the first failure
WorktreeDone(name, ok) ==
  /\ entry = "implement" /\ pc = "provision"
  /\ name \in inflight
  /\ ok => name \notin worktrees
  /\ inflight' = inflight \ {name}
  /\ IF ok
     THEN /\ worktrees' = worktrees \cup {name}
          /\ worktreePaths' = Put(worktreePaths, name, WorktreePath(name))
          /\ Goto("provision")
     ELSE /\ Fail("provision")
          /\ UNCHANGED <<worktrees, worktreePaths>>
  /\ UNCHANGED <<inputVars, resVars, provIdx, gitCalls, loopVars, tmuxVars, fileVars>>

\* a creation still outstanding when the command has exited ends on its own
AbandonedCreateDone(name, ok) ==
  /\ entry = "implement" /\ pc = "failed"
  /\ name \in inflight
  /\ ok => name \notin worktrees
  /\ inflight' = inflight \ {name}
  /\ worktrees' = IF ok THEN worktrees \cup {name} ELSE worktrees
  /\ UNCHANGED <<inputVars, ctlVars, resVars, provIdx, worktreePaths, gitCalls,
                 loopVars, tmuxVars, fileVars>>

\* createWorktrees returns the map
ProvisionDone ==
  /\ entry = "implement" /\ pc = "provision"
  /\ provIdx > Len(orderedFeatures) /\ inflight = {}
  /\ Goto("install")
  /\ UNCHANGED <<inputVars, resVars, provVars, gitVars, loopVars, tmuxVars, fileVars>>

\* dependency installation: every failure is caught and only warned about
InstallDeps ==
  /\ entry = "implement" /\ pc = "install"
  /\ Goto("sessions")
  /\ bpc' = "loop"
  /\ UNCHANGED <<inputVars, resVars, provVars, gitVars, fi, si, k, sessionName,
                 featureSessions, sessionMap, tmuxVars, fileVars>>

\* head of: for (const feature of orderedFeatures) { for (const session of ...) }
ImplSessionLoop ==
  /\ entry = "implement" /\ pc = "sessions" /\ bpc = "loop"
  /\ IF fi > Len(orderedFeatures)
     THEN /\ Goto("save")
          /\ UNCHANGED loopVars
     ELSE /\ Goto("sessions")
          /\ IF CurFeature.name \notin DOMAIN worktreePaths
             THEN /\ fi' = fi + 1
                  /\ UNCHANGED <<si, bpc, k, sessionName, featureSessions, sessionMap>>
             ELSE IF si <= Len(CurFeature.sessions)
             THEN /\ bpc' = "has"
                  /\ UNCHANGED <<fi, si, k, sessionName, featureSessions, sessionMap>>
             ELSE /\ sessionMap' = Put(sessionMap, CurFeature.name, featureSessions)
                  /\ IF CurFeature.claudeContext # ""
                     THEN /\ bpc' = "context"
                          /\ UNCHANGED <<fi, si, featureSessions>>
                     ELSE /\ fi' = fi + 1
                          /\ si' = 1
                          /\ featureSessions' = <<>>
                          /\ UNCHANGED bpc
                  /\ UNCHANGED <<k, sessionName>>
  /\ UNCHANGED <<inputVars, resVars, provVars, gitVars, tmuxVars, fileVars>>

\* ------------------------------------------------------------------
\* createTmuxSession
\* ------------------------------------------------------------------
\* the id is returned to the caller, which records it and injects the prompts
ReturnSessionName ==
  /\ sessionName' = CurId
  /\ featureSessions' = Append(featureSessions, CurId)
  /\ k' = 0
  /\ bpc' = "inject"

\* bug variant: the result of has-session is not used
HasSession_Unchecked ==
  /\ pc = "sessions" /\ bpc = "has"
  /\ tmuxCalls' = Append(tmuxCalls, TmuxCall("has-session", -1, ""))
  /\ bpc' = "new"
  /\ UNCHANGED <<inputVars, ctlVars, resVars, provVars, gitVars, fi, si, k,
                 sessionName, featureSessions, sessionMap, tmux, fileVars>>

\* tmux has-session -t sessionName
HasSession ==
  /\ pc = "sessions" /\ bpc = "has"
  /\ tmuxCalls' = Append(tmuxCalls, TmuxCall("has-session", -1, ""))
  /\ IF CurId \in DOMAIN tmux
     THEN ReturnSessionName
     ELSE /\ bpc' = "new"
          /\ UNCHANGED <<k, sessionName, featureSessions>>
  /\ UNCHANGED <<inputVars, ctlVars, resVars, provVars, gitVars, fi, si, sessionMap,
                 tmux, fileVars>>

\* bug variant: the split loop starts at 0
NewSession_SplitFromZero(ok) ==
  /\ pc = "sessions" /\ bpc = "new"
  /\ tmuxCalls' = Append(tmuxCalls, TmuxCall("new-session", -1, ""))
  /\ ok => CurId \notin DOMAIN tmux
  /\ IF ok
     THEN /\ tmux' = Put(tmux, CurId, 1)
          /\ k' = 0
          /\ bpc' = "split"
          /\ Goto("sessions")
     ELSE /\ Fail("session")
          /\ UNCHANGED <<tmux, k, bpc>>
  /\ UNCHANGED <<inputVars, resVars, provVars, gitVars, fi, si, sessionName,
                 featureSessions, sessionMap, fileVars>>

\* tmux new-session -d -s sessionName -c worktreePath
NewSession(ok) ==
  /\ pc = "sessions" /\ bpc = "new"
  /\ tmuxCalls' = Append(tmuxCalls, TmuxCall("new-session", -1, ""))
  /\ ok => CurId \notin DOMAIN tmux
  /\ IF ok
     THEN /\ tmux' = Put(tmux, CurId, 1)
          /\ k' = 1
          /\ bpc' = IF 1 < CurSession.panes THEN "split" ELSE AfterSplits(CurSession)
          /\ Goto("sessions")
     ELSE /\ Fail("session")
          /\ UNCHANGED <<tmux, k, bpc>>
  /\ UNCHANGED <<inputVars, resVars, provVars, gitVars, fi, si, sessionName,
                 featureSessions, sessionMap, fileVars>>

\* for (let i = 1; i < session.panes; i++) tmux split-window
SplitWindow(ok) ==
  /\ pc = "sessions" /\ bpc = "split"
  /\ k < CurSession.panes
  /\ tmuxCalls' = Append(tmuxCalls, TmuxCall("split-window", -1, SplitFlag(CurSession, k)))
  /\ ok => CurId \in DOMAIN tmux
  /\ IF ok
     THEN /\ tmux' = [tmux EXCEPT ![CurId] = @ + 1]
          /\ k' = k + 1
          /\ bpc' = IF k + 1 < CurSession.panes THEN "split" ELSE AfterSplits(CurSession)
          /\ Goto("sessions")
     ELSE /\ Fail("session")
          /\ UNCHANGED <<tmux, k, bpc>>
  /\ UNCHANGED <<inputVars, resVars, provVars, gitVars, fi, si, sessionName,
                 featureSessions, sessionMap, fileVars>>

\* if (session.layout) tmux select-layout
SelectLayout(ok) ==
  /\ pc = "sessions" /\ bpc = "layout"
  /\ tmuxCalls' = Append(tmuxCalls, TmuxCall("select-layout", -1, CurSession.layout))
  /\ IF ok
     THEN /\ bpc' = "rename"
          /\ Goto("sessions")
     ELSE /\ Fail("session")
          /\ UNCHANGED bpc
  /\ UNCHANGED <<inputVars, resVars, provVars, gitVars, fi, si, k, sessionName,
                 featureSessions, sessionMap, tmux, fileVars>>

\* tmux rename-window, then return sessionName
RenameWindow(ok) ==
  /\ pc = "sessions" /\ bpc = "rename"
  /\ tmuxCalls' = Append(tmuxCalls, TmuxCall("rename-window", -1, CurSession.name))
  /\ IF ok
     THEN /\ ReturnSessionName
          /\ Goto("sessions")
     ELSE /\ Fail("session")
          /\ UNCHANGED <<bpc, k, sessionName, featureSessions>>
  /\ UNCHANGED <<inputVars, resVars, provVars, gitVars, fi, si, sessionMap, tmux, fileVars>>

\* ------------------------------------------------------------------
\* injectPrompts
\* ------------------------------------------------------------------
\* bug variant: an empty prompt is injected like any other
InjectLoop_EmptyNotSkipped ==
  /\ pc = "sessions" /\ bpc = "inject"
  /\ IF k >= Len(CurSession.prompts)
     THEN /\ si' = si + 1
          /\ bpc' = "loop"
          /\ UNCHANGED k
     ELSE /\ bpc' = "cc"
          /\ UNCHANGED <<si, k>>
  /\ UNCHANGED <<inputVars, ctlVars, resVars, provVars, gitVars, fi, sessionName,
                 featureSessions, sessionMap, tmuxVars, fileVars>>

\* bug variant: the prompt is written without the interrupt before it
InjectLoop_InterruptSkipped ==
  /\ pc = "sessions" /\ bpc = "inject"
  /\ IF k >= Len(CurSession.prompts)
     THEN /\ si' = si + 1
          /\ bpc' = "loop"
          /\ UNCHANGED k
     ELSE IF CurSession.prompts[k + 1] = ""
     THEN /\ k' = k + 1
          /\ UNCHANGED <<si, bpc>>
     ELSE /\ bpc' = "text"
          /\ UNCHANGED <<si, k>>
  /\ UNCHANGED <<inputVars, ctlVars, resVars, provVars, gitVars, fi, sessionName,
                 featureSessions, sessionMap, tmuxVars, fileVars>>

\* bug variant: skipping an empty prompt does not advance the index
InjectLoop_EmptyNotAdvanced ==
  /\ pc = "sessions" /\ bpc = "inject"
  /\ IF k >= Len(CurSession.prompts)
     THEN /\ si' = si + 1
          /\ bpc' = "loop"
          /\ UNCHANGED k
     ELSE IF CurSession.prompts[k + 1] = ""
     THEN UNCHANGED <<si, bpc, k>>
     ELSE /\ bpc' = "cc"
          /\ UNCHANGED <<si, k>>
  /\ UNCHANGED <<inputVars, ctlVars, resVars, provVars, gitVars, fi, sessionName,
                 featureSessions, sessionMap, tmuxVars, fileVars>>

\* head of: for (let i = 0; i < prompts.length; i++) { if (!prompt) continue
InjectLoop ==
  /\ pc = "sessions" /\ bpc = "inject"
  /\ IF k >= Len(CurSession.prompts)
     THEN /\ si' = si + 1
          /\ bpc' = "loop"
          /\ UNCHANGED k
     ELSE IF CurSession.prompts[k + 1] = ""
     THEN /\ k' = k + 1
          /\ UNCHANGED <<si, bpc>>
     ELSE /\ bpc' = "cc"
          /\ UNCHANGED <<si, k>>
  /\ UNCHANGED <<inputVars, ctlVars, resVars, provVars, gitVars, fi, sessionName,
                 featureSessions, sessionMap, tmuxVars, fileVars>>

\* tmux answers send-keys only for a pane that exists
PaneExists(id, pane) == id \in DOMAIN tmux /\ pane < tmux[id]

SendKeys(ok, from, to, keys) ==
  /\ pc = "sessions" /\ bpc = from
  /\ tmuxCalls' = Append(tmuxCalls,
       [cmd |-> "send-keys", session |-> sessionName, pane |-> k, arg |-> keys])
  /\ ok => PaneExists(sessionName, k)
  /\ IF ok
     THEN /\ bpc' = to
          /\ k' = IF to = "inject" THEN k + 1 ELSE k
          /\ Goto("sessions")
     ELSE /\ Fail("session")
          /\ UNCHANGED <<bpc, k>>
  /\ UNCHANGED <<inputVars, resVars, provVars, gitVars, fi, si, sessionName,
                 featureSessions, sessionMap, tmux, fileVars>>

\* send-keys C-c
SendInterrupt(ok) == SendKeys(ok, "cc", "text", "C-c")

\* send-keys <prompt>
SendPrompt(ok) == SendKeys(ok, "text", "hint", CurSession.prompts[k + 1])

\* send-keys ' # [Press Enter to execute]'
SendHint(ok) == SendKeys(ok, "hint", "inject", ExecutionHint)

\* ------------------------------------------------------------------
\* customizeClaudeMd and saveOrchestraState
\* ------------------------------------------------------------------
\* bug variant: a failed write of CLAUDE.md is swallowed
Context_FailureSwallowed(ok) ==
  /\ pc = "sessions" /\ bpc = "context"
  /\ claudeMd' = IF ok THEN claudeMd \cup {CurFeature.name} ELSE claudeMd
  /\ fi' = fi + 1
  /\ si' = 1
  /\ featureSessions' = <<>>
  /\ bpc' = "loop"
  /\ Goto("sessions")
  /\ UNCHANGED <<inputVars, resVars, provVars, gitVars, k, sessionName, sessionMap,
                 tmuxVars, stateDoc, loaded, attach>>

\* writeFile(CLAUDE.md) in the worktree of the feature
Context(ok) ==
  /\ pc = "sessions" /\ bpc = "context"
  /\ IF ok
     THEN /\ claudeMd' = claudeMd \cup {CurFeature.name}
          /\ fi' = fi + 1
          /\ si' = 1
          /\ featureSessions' = <<>>
          /\ bpc' = "loop"
          /\ Goto("sessions")
     ELSE /\ Fail("context")
          /\ UNCHANGED <<claudeMd, fi, si, featureSessions, bpc>>
  /\ UNCHANGED <<inputVars, resVars, provVars, gitVars, k, sessionName, sessionMap,
                 tmuxVars, stateDoc, loaded, attach>>

\* bug variant: a failed run leaves a document that records the failure
SaveState_FailureRecorded(ok) ==
  /\ entry = "implement" /\ pc = "save"
  /\ IF ok
     THEN /\ stateDoc' = <<JSONstringify(BuildState)>>
          /\ Goto("done")
     ELSE /\ Fail("save")
          /\ stateDoc' = <<JSONstringify([BuildState EXCEPT !.status = "failed"])>>
  /\ UNCHANGED <<inputVars, resVars, provVars, gitVars, loopVars, tmuxVars, claudeMd,
                 loaded, attach>>

\* saveOrchestraState(state): mkdir and writeFile
SaveState(ok) ==
  /\ entry = "implement" /\ pc = "save"
  /\ IF ok
     THEN /\ stateDoc' = <<JSONstringify(BuildState)>>
          /\ Goto("done")
     ELSE /\ Fail("save")
          /\ UNCHANGED stateDoc
  /\ UNCHANGED <<inputVars, resVars, provVars, gitVars, loopVars, tmuxVars, claudeMd,
                 loaded, attach>>

\* loadOrchestraState(), as showOrchestraStatus calls it before a run, after
\* a run that ended and after a run that failed
Load ==
  /\ entry = "implement" /\ pc \in {"start", "done", "failed"}
  /\ loaded.at # pc
  /\ LET r == loadOrchestraState(stateDoc)
     IN loaded' = [called |-> TRUE, at |-> pc, raised |-> r.raised,
                   found |-> r.found, state |-> r.state]
  /\ UNCHANGED <<inputVars, ctlVars, resVars, provVars, gitVars, loopVars, tmuxVars,
                 claudeMd, stateDoc, attach>>

\* for each feature: the first session with that session_name gets
\* attached_count++ (the break leaves the inner loop only)
CountAttach(state, id) ==
  [x \in DOMAIN state |->
     IF x # "features" THEN state[x]
     ELSE [i \in DOMAIN state.features |->
             LET ss == state.features[i].sessions
                 hit == {j \in DOMAIN ss : ss[j].session_name = id}
             IN [y \in DOMAIN state.features[i] |->
                   IF y # "sessions" THEN state.features[i][y]
                   ELSE [j \in DOMAIN ss |->
                           IF j \in hit /\ \A h \in hit : j <= h
                           THEN [z \in DOMAIN ss[j] |->
                                   IF z = "attached_count"
                                   THEN ss[j].attached_count + 1 ELSE ss[j][z]]
                           ELSE ss[j]]]]]

\* the session_names of the document that tmux list-sessions reports
AvailableSessions(state) ==
  {id \in DOMAIN tmux :
     \E i \in DOMAIN state.features : \E j \in DOMAIN state.features[i].sessions :
       state.features[i].sessions[j].session_name = id}

\* attachToOrchestraSession: load the state, attach to the selected
\* session, count the attach in the loaded object. The attach ends the
\* process when the helper exits on detach and returns otherwise; the
\* document is not written again in either case.
Attach(id, exits) ==
  /\ entry = "implement" /\ pc = "done"
  /\ ~attach.done
  /\ loadOrchestraState(stateDoc).found
  /\ LET state == loadOrchestraState(stateDoc).state[1]
     IN /\ id \in AvailableSessions(state)
        /\ attach' = [done |-> TRUE, session |-> id, exited |-> exits,
                      memory |-> IF exits THEN <<>> ELSE <<CountAttach(state, id)>>]
  /\ UNCHANGED <<inputVars, ctlVars, resVars, provVars, gitVars, loopVars, tmuxVars,
                 claudeMd, stateDoc, loaded>>

\* ------------------------------------------------------------------
\* Specification of one implementCommand run
\* ------------------------------------------------------------------
ImplementOptions ==
  {[dryRun |-> d, sequential |-> q, skipWorktree |-> FALSE] : d \in BOOLEAN, q \in BOOLEAN}

\* a session left by an earlier run may already exist
EarlierSessions(cfg) ==
  {EmptyMap} \cup {Put(EmptyMap, id, MaxPanes) : id \in SessionIds(cfg)}

Init ==
  /\ config \in RunConfigs
  /\ requested = [i \in DOMAIN config.features |-> config.features[i].name]
  /\ entry = "implement"
  /\ options \in ImplementOptions
  /\ pc = "start"
  /\ calls = 1
  /\ FreshCall
  /\ worktrees = {}
  /\ tmux \in EarlierSessions(config)
  /\ claudeMd = {}
  /\ stateDoc = <<>>
  /\ loaded = NotLoaded
  /\ attach = NotAttached
  /\ SingleRun

BuilderStep ==
  \/ HasSession
  \/ \E ok \in BOOLEAN : NewSession(ok)
  \/ \E ok \in BOOLEAN : SplitWindow(ok)
  \/ \E ok \in BOOLEAN : SelectLayout(ok)
  \/ \E ok \in BOOLEAN : RenameWindow(ok)
  \/ InjectLoop
  \/ \E ok \in BOOLEAN : SendInterrupt(ok)
  \/ \E ok \in BOOLEAN : SendPrompt(ok)
  \/ \E ok \in BOOLEAN : SendHint(ok)
  \/ \E ok \in BOOLEAN : Context(ok)

Next ==
  \/ \E ok \in BOOLEAN : Preflight(ok)
  \/ \E valid \in BOOLEAN : Validate(valid)
  \/ Resolve
  \/ \E ok \in BOOLEAN : ProvisionSequential(ok)
  \/ ProvisionIssueAll
  \/ \E name \in Names, ok \in BOOLEAN : WorktreeDone(name, ok)
  \/ \E name \in Names, ok \in BOOLEAN : AbandonedCreateDone(name, ok)
  \/ ProvisionDone
  \/ InstallDeps
  \/ ImplSessionLoop
  \/ BuilderStep
  \/ \E ok \in BOOLEAN : SaveState(ok)
  \/ Load
  \/ \E id \in SessionIds(config), exits \in BOOLEAN : Attach(id, exits)

Spec == Init /\ [][Next]_vars

\* the steps of the implementCommand run itself: each is synchronous code
\* or the return of an awaited external command
RunStep ==
  \/ \E ok \in BOOLEAN : Preflight(ok)
  \/ \E valid \in BOOLEAN : Validate(valid)
  \/ Resolve
  \/ \E ok \in BOOLEAN : ProvisionSequential(ok)
  \/ ProvisionIssueAll
  \/ \E name \in Names, ok \in BOOLEAN : WorktreeDone(name, ok)
  \/ ProvisionDone
  \/ InstallDeps
  \/ ImplSessionLoop
  \/ BuilderStep
  \/ \E ok \in BOOLEAN : SaveState(ok)

\* the runs followed to their end: a dependency chain of two features listed
\* against its order, each with the same two-pane sessions
LiveConfigs ==
  {Furnish(<<FeatureConfig("api", <<"auth">>, <<>>), FeatureConfig("auth", <<>>, <<>>)>>,
           SessionsOf(sh, n)) :
     sh \in {x \in RunSessionShapes : x.panes = 2 /\ x.layout = "tiled"},
     n \in 1..MaxSessions}

InitLive ==
  /\ config \in LiveConfigs
  /\ requested = [i \in DOMAIN config.features |-> config.features[i].name]
  /\ entry = "implement"
  /\ options \in ImplementOptions
  /\ pc = "start"
  /\ calls = 1
  /\ FreshCall
  /\ worktrees = {}
  /\ tmux \in EarlierSessions(config)
  /\ claudeMd = {}
  /\ stateDoc = <<>>
  /\ loaded = NotLoaded
  /\ attach = NotAttached
  /\ SingleRun

\* every awaited external command returns, with success or failure
SpecLive == InitLive /\ [][RunStep]_vars /\ WF_vars(RunStep)

\* ------------------------------------------------------------------
\* Two runs of implementCommand at the same time in one project: they
\* share the git repository, the tmux server and the state document. Each
\* run has passed the preflight and resolved its own plan of one feature.
\* ------------------------------------------------------------------
RunIds == {1, 2}

\* the plans: a feature without sessions, two features whose session gets
\* the same id, and a feature whose raw session id is longer than 30
PairPlans ==
  {FeatureConfig("auth", <<>>, <<>>),
   FeatureConfig("auth", <<>>, <<SessionConfig("api-dev", 1, "none", <<>>)>>),
   FeatureConfig("auth-api", <<>>, <<SessionConfig("dev", 1, "none", <<>>)>>),
   FeatureConfig("payment_gateway", <<>>,
                 <<SessionConfig("integration_tests", 1, "none", <<>>)>>)}

NewRun(plan) ==
  [plan |-> plan, pc |-> "worktree", error |-> "none", saw |-> "none",
   sessionName |-> <<>>]

\* getSessionName(feature.name, session.name) of the run's session
PairId(r) == getSessionName(runs[r].plan.name, runs[r].plan.sessions[1].name)

PairTmuxCall(r, cmd, arg) == [cmd |-> cmd, session |-> PairId(r), pane |-> -1, arg |-> arg]

\* the state the run builds before saveOrchestraState
PairState(r) ==
  StateOf(<<runs[r].plan>>,
          Put(EmptyMap, runs[r].plan.name, WorktreePath(runs[r].plan.name)))

\* a write at offset 0 of a file that holds old: what lies beyond the
\* written text stays
Overlay(old, new) == new \o SubSeq(old, Len(new) + 1, Len(old))

\* what no step of a pair run changes
pairFrame ==
  <<config, requested, entry, ctlVars, resVars, provVars, loopVars, claudeMd, loaded,
    attach>>

PairFail(r, stage) == runs' = [runs EXCEPT ![r].pc = "failed", ![r].error = stage]

\* createWorktrees: createWorktree(feature.name, 'main')
PairWorktree(r, ok) ==
  /\ entry = "pair" /\ runs[r].pc = "worktree"
  /\ gitCalls' = Append(gitCalls, [op |-> "createWorktree",
                                   branch |-> runs[r].plan.name, base |-> "main"])
  /\ ok => runs[r].plan.name \notin worktrees
  /\ IF ok
     THEN /\ worktrees' = worktrees \cup {runs[r].plan.name}
          /\ runs' = [runs EXCEPT
                        ![r].pc = IF runs[r].plan.sessions = <<>> THEN "open" ELSE "has"]
     ELSE /\ PairFail(r, "worktree")
          /\ UNCHANGED worktrees
  /\ UNCHANGED <<pairFrame, tmuxVars, stateDoc, fileCalls>>

\* createTmuxSession: tmux has-session
PairHasSession(r) ==
  /\ entry = "pair" /\ runs[r].pc = "has"
  /\ tmuxCalls' = Append(tmuxCalls, PairTmuxCall(r, "has-session", ""))
  /\ runs' = IF PairId(r) \in DOMAIN tmux
             THEN [runs EXCEPT ![r].saw = "exists", ![r].sessionName = PairId(r),
                               ![r].pc = "open"]
             ELSE [runs EXCEPT ![r].saw = "absent", ![r].pc = "new"]
  /\ UNCHANGED <<pairFrame, gitVars, tmux, stateDoc, fileCalls>>

\* bug variant: new-session -A, which succeeds on an existing session
PairNewSession_AttachIfExists(r, ok) ==
  /\ entry = "pair" /\ runs[r].pc = "new"
  /\ tmuxCalls' = Append(tmuxCalls, PairTmuxCall(r, "new-session", ""))
  /\ IF ok
     THEN /\ tmux' = Put(tmux, PairId(r), 1)
          /\ runs' = [runs EXCEPT ![r].pc = "rename"]
     ELSE /\ PairFail(r, "new")
          /\ UNCHANGED tmux
  /\ UNCHANGED <<pairFrame, gitVars, stateDoc, fileCalls>>

\* createTmuxSession: tmux new-session -d -s id, which fails on a duplicate
PairNewSession(r, ok) ==
  /\ entry = "pair" /\ runs[r].pc = "new"
  /\ tmuxCalls' = Append(tmuxCalls, PairTmuxCall(r, "new-session", ""))
  /\ ok => PairId(r) \notin DOMAIN tmux
  /\ IF ok
     THEN /\ tmux' = Put(tmux, PairId(r), 1)
          /\ runs' = [runs EXCEPT ![r].pc = "rename"]
     ELSE /\ PairFail(r, "new")
          /\ UNCHANGED tmux
  /\ UNCHANGED <<pairFrame, gitVars, stateDoc, fileCalls>>

\* createTmuxSession: rename-window and return; the session has no
\* prompts and the feature no context, so the state is built next
PairRenameWindow(r, ok) ==
  /\ entry = "pair" /\ runs[r].pc = "rename"
  /\ tmuxCalls' = Append(tmuxCalls,
                         PairTmuxCall(r, "rename-window", runs[r].plan.sessions[1].name))
  /\ IF ok
     THEN runs' = [runs EXCEPT ![r].sessionName = PairId(r), ![r].pc = "open"]
     ELSE PairFail(r, "rename")
  /\ UNCHANGED <<pairFrame, gitVars, tmux, stateDoc, fileCalls>>

\* bug variant: the document is opened without truncation
PairOpen_NoTruncate(r, ok) ==
  /\ entry = "pair" /\ runs[r].pc = "open"
  /\ IF ok
     THEN /\ stateDoc' = IF stateDoc = <<>> THEN <<<<>>>> ELSE stateDoc
          /\ fileCalls' = Append(fileCalls, [op |-> "open", run |-> r])
          /\ runs' = [runs EXCEPT ![r].pc = "write"]
     ELSE /\ PairFail(r, "save")
          /\ UNCHANGED <<stateDoc, fileCalls>>
  /\ UNCHANGED <<pairFrame, gitVars, tmuxVars>>

\* saveOrchestraState: mkdir, then writeFile opens the document for
\* writing, which creates or empties it
PairOpen(r, ok) ==
  /\ entry = "pair" /\ runs[r].pc = "open"
  /\ IF ok
     THEN /\ stateDoc' = <<<<>>>>
          /\ fileCalls' = Append(fileCalls, [op |-> "open", run |-> r])
          /\ runs' = [runs EXCEPT ![r].pc = "write"]
     ELSE /\ PairFail(r, "save")
          /\ UNCHANGED <<stateDoc, fileCalls>>
  /\ UNCHANGED <<pairFrame, gitVars, tmuxVars>>

\* saveOrchestraState: writeFile writes JSON.stringify(state) from the start
\* of the document
PairWrite(r) ==
  /\ entry = "pair" /\ runs[r].pc = "write"
  /\ stateDoc' = <<Overlay(stateDoc[1], JSONstringify(PairState(r)))>>
  /\ fileCalls' = Append(fileCalls, [op |-> "write", run |-> r])
  /\ runs' = [runs EXCEPT ![r].pc = "done"]
  /\ UNCHANGED <<pairFrame, gitVars, tmuxVars>>

InitPair ==
  /\ config = [features |-> <<>>]
  /\ requested = <<>>
  /\ entry = "pair"
  /\ options = NoOptions
  /\ pc = "start"
  /\ calls = 1
  /\ FreshCall
  /\ EmptyWorld
  /\ runs \in [RunIds -> {NewRun(p) : p \in PairPlans}]
  /\ fileCalls = <<>>

NextPair ==
  \/ \E r \in RunIds, ok \in BOOLEAN : PairWorktree(r, ok)
  \/ \E r \in RunIds : PairHasSession(r)
  \/ \E r \in RunIds, ok \in BOOLEAN : PairNewSession(r, ok)
  \/ \E r \in RunIds, ok \in BOOLEAN : PairRenameWindow(r, ok)
  \/ \E r \in RunIds, ok \in BOOLEAN : PairOpen(r, ok)
  \/ \E r \in RunIds : PairWrite(r)

SpecPair == InitPair /\ [][NextPair]_vars

\* ------------------------------------------------------------------
\* createOrchestraSession
\* ------------------------------------------------------------------
\* createWorktree(feature, feature.base || 'main'), or getWorktreePath with
\* skipWorktree
OrchWorktree(ok) ==
  /\ entry = "createOrchestraSession" /\ pc = "start"
  /\ LET f == config.features[1]
     IN /\ IF options.skipWorktree
           THEN /\ gitCalls' = Append(gitCalls,
                     [op |-> "getWorktreePath", branch |-> f.name, base |-> ""])
                /\ UNCHANGED worktrees
           ELSE /\ gitCalls' = Append(gitCalls,
                     [op |-> "createWorktree", branch |-> f.name,
                      base |-> IF f.base # "unset" THEN f.base ELSE "main"])
                /\ ok => f.name \notin worktrees
                /\ worktrees' = IF ok THEN worktrees \cup {f.name} ELSE worktrees
        /\ IF ok
           THEN /\ worktreePaths' = Put(worktreePaths, f.name, WorktreePath(f.name))
                /\ bpc' = "loop"
                /\ Goto("sessions")
           ELSE /\ Fail("provision")
                /\ UNCHANGED <<worktreePaths, bpc>>
  /\ UNCHANGED <<inputVars, resVars, provIdx, inflight, fi, si, k, sessionName,
                 featureSessions, sessionMap, tmuxVars, fileVars>>

\* head of: for (const session of feature.sessions || []), then CLAUDE.md
OrchSessionLoop ==
  /\ entry = "createOrchestraSession" /\ pc = "sessions" /\ bpc = "loop"
  /\ IF fi > 1
     THEN /\ Goto("done")
          /\ UNCHANGED bpc
     ELSE IF si <= Len(CurFeature.sessions)
     THEN /\ Goto("sessions")
          /\ bpc' = "has"
     ELSE IF CurFeature.claudeContext # ""
     THEN /\ Goto("sessions")
          /\ bpc' = "context"
     ELSE /\ Goto("done")
          /\ UNCHANGED bpc
  /\ UNCHANGED <<inputVars, resVars, provVars, gitVars, fi, si, k, sessionName,
                 featureSessions, sessionMap, tmuxVars, fileVars>>

SessionOptions ==
  {[dryRun |-> FALSE, sequential |-> FALSE, skipWorktree |-> w] : w \in BOOLEAN}

\* the caller calls createOrchestraSession again for the same feature
CallAgain(opts) ==
  /\ entry = "createOrchestraSession"
  /\ pc \in {"done", "failed"}
  /\ calls < MaxCalls
  /\ calls' = calls + 1
  /\ options' = opts
  /\ pc' = "start"
  /\ error' = "none"
  /\ resolved' = NotCalled
  /\ orderedFeatures' = <<>>
  /\ provIdx' = 1
  /\ inflight' = {}
  /\ worktreePaths' = EmptyMap
  /\ gitCalls' = <<>>
  /\ fi' = 1
  /\ si' = 1
  /\ bpc' = "idle"
  /\ k' = 0
  /\ sessionName' = <<>>
  /\ featureSessions' = <<>>
  /\ sessionMap' = EmptyMap
  /\ tmuxCalls' = <<>>
  /\ UNCHANGED <<inputVars, worktrees, tmux, fileVars>>

InitSession ==
  /\ config \in SessionFeatureConfigs
  /\ requested = <<>>
  /\ entry = "createOrchestraSession"
  /\ options \in SessionOptions
  /\ pc = "start"
  /\ calls = 1
  /\ FreshCall
  /\ EmptyWorld
  /\ SingleRun

NextSession ==
  \/ \E ok \in BOOLEAN : OrchWorktree(ok)
  \/ OrchSessionLoop
  \/ BuilderStep
  \/ \E opts \in SessionOptions : CallAgain(opts)

SpecSession == InitSession /\ [][NextSession]_vars

\* ------------------------------------------------------------------
\* Graph notions used by the resolver properties
\* ------------------------------------------------------------------
\* dependencies of n that name a feature of the map
Edges(cfg, n) ==
  IF HasFeature(cfg, n) THEN Range(DepsOf(cfg, n)) \cap ConfigNames(cfg) ELSE {}

RECURSIVE Closure(_, _)
Closure(cfg, S) ==
  LET S2 == S \cup UNION {Edges(cfg, n) : n \in S}
  IN IF S2 = S THEN S ELSE Closure(cfg, S2)

OnCycle(cfg, n) == n \in Closure(cfg, Edges(cfg, n))

HasCycle(cfg) == \E n \in ConfigNames(cfg) : OnCycle(cfg, n)

CycleReachable(cfg, req) ==
  \E n \in Closure(cfg, Range(req) \cap ConfigNames(cfg)) : OnCycle(cfg, n)

HasUnknownDep(cfg, n) ==
  HasFeature(cfg, n) /\ \E d \in Range(DepsOf(cfg, n)) : d \notin ConfigNames(cfg)

\* the configuration with every dependency on an unknown name removed
StripUnknown(cfg) ==
  [features |->
     [i \in DOMAIN cfg.features |->
        [cfg.features[i] EXCEPT !.dependencies =
           SelectSeq(@, LAMBDA d : d \in ConfigNames(cfg))]]]

\* post-order written without marks: the full expansion of every requested
\* name, keeping the first occurrence of each name
RECURSIVE Expand(_, _)
RECURSIVE ExpandAll(_, _)
Expand(cfg, n) ==
  IF ~HasFeature(cfg, n) THEN <<>>
  ELSE ExpandAll(cfg, DepsOf(cfg, n)) \o <<n>>

ExpandAll(cfg, names) ==
  IF names = <<>> THEN <<>>
  ELSE Expand(cfg, Head(names)) \o ExpandAll(cfg, Tail(names))

RECURSIVE FirstOccurrences(_)
FirstOccurrences(s) ==
  IF s = <<>> THEN <<>>
  ELSE LET d == FirstOccurrences(SubSeq(s, 1, Len(s) - 1))
       IN IF s[Len(s)] \in Range(d) THEN d ELSE Append(d, s[Len(s)])

ResolveReturned == resolved.status # "none"

\* ------------------------------------------------------------------
\* C1: on an acyclic feature graph resolve returns a list in which every
\* dependency that is a feature of the map comes strictly before each
\* feature declaring it, and whose names are exactly the requested
\* features and their transitive dependencies, each once.
\* ------------------------------------------------------------------
C1_DependencyFirstClosure ==
  (ResolveReturned /\ ~HasCycle(config)) =>
    /\ resolved.status = "ok"
    /\ \A i \in DOMAIN resolved.order : \A j \in DOMAIN resolved.order :
         i # j => resolved.order[i] # resolved.order[j]
    /\ Range(resolved.order) = Closure(config, Range(requested))
    /\ \A f \in Range(resolved.order) : \A d \in Edges(config, f) :
         /\ d \in Range(resolved.order)
         /\ IndexOf(resolved.order, d) < IndexOf(resolved.order, f)

C1_Witness ==
  /\ requested = <<"ui">>
  /\ HasFeature(config, "ui") /\ DepsOf(config, "ui") = <<"auth", "api">>
  /\ HasFeature(config, "api") /\ DepsOf(config, "api") = <<"auth">>
  /\ resolved = [status |-> "ok", order |-> <<"auth", "api", "ui">>]

C3_UnknownDependencyOmitted ==
  ResolveReturned =>
    /\ Range(resolved.order) \subseteq ConfigNames(config)
    /\ resolved = resolveDependencies(requested, StripUnknown(config))
    /\ ~CycleReachable(config, requested) => resolved.status = "ok"

C3_Witness ==
  /\ resolved.status = "ok"
  /\ Len(resolved.order) >= 2
  /\ \E n \in Range(resolved.order) : HasUnknownDep(config, n)

\* ------------------------------------------------------------------
\* C4: the returned order is the depth-first post-order of the requested
\* names taken in the order given, dependencies in declared order; an
\* empty request gives the empty list.
\* ------------------------------------------------------------------
C4_PostOrder ==
  /\ (ResolveReturned /\ requested = <<>>) =>
       resolved = [status |-> "ok", order |-> <<>>]
  /\ resolved.status = "ok" =>
       resolved.order = FirstOccurrences(ExpandAll(config, requested))

C4_Witness ==
  /\ config = ComplexConfig
  /\ requested = <<"top">>
  /\ resolved.order = <<"base1", "middle1", "base2", "middle2", "top">>

\* ------------------------------------------------------------------
\* Notions used by the orchestration properties
\* ------------------------------------------------------------------
IssuedFor(id, cmd) ==
  {i \in DOMAIN tmuxCalls : tmuxCalls[i].cmd = cmd /\ tmuxCalls[i].session = id}

\* the current call has issued new-session for the id
CreatedInCall(id) == IssuedFor(id, "new-session") # {}

\* createTmuxSession has returned and the prompts of the session are next
BuilderReturned == pc = "sessions" /\ bpc \in {"inject", "cc", "text", "hint"}

\* prompt p of the session was written into pane p - 1
PromptSent(id, pane, text) ==
  \E i \in DOMAIN tmuxCalls :
    tmuxCalls[i] = [cmd |-> "send-keys", session |-> id, pane |-> pane, arg |-> text]

FeatureComplete(f) ==
  /\ f.name \in worktrees
  /\ f.name \in DOMAIN sessionMap
  /\ Len(sessionMap[f.name]) = Len(f.sessions)
  /\ \A j \in DOMAIN f.sessions :
       /\ sessionMap[f.name][j] = getSessionName(f.name, f.sessions[j].name)
       /\ sessionMap[f.name][j] \in DOMAIN tmux
       /\ \A p \in DOMAIN f.sessions[j].prompts :
            f.sessions[j].prompts[p] # "" =>
              PromptSent(sessionMap[f.name][j], p - 1, f.sessions[j].prompts[p])
  /\ f.claudeContext # "" => f.name \in claudeMd

\* ------------------------------------------------------------------
\* C5: a run whose dependency validation or resolution fails ends in
\* failure and has created no worktree, no tmux session and no state
\* document.
\* ------------------------------------------------------------------
C5_NothingCreatedOnResolveFailure ==
  error \in {"validate", "resolve"} =>
    /\ pc = "failed"
    /\ worktrees = {} /\ gitCalls = <<>> /\ inflight = {}
    /\ tmuxCalls = <<>>
    /\ claudeMd = {} /\ stateDoc = <<>>

C5_Witness ==
  /\ pc = "failed" /\ error = "resolve"
  /\ resolved.status = "error"
  /\ ~options.dryRun

\* ------------------------------------------------------------------
\* C6: after a provisioning failure every worktree created in the run has
\* been deleted again.
\* ------------------------------------------------------------------
C6_CreatedWorktreesDeleted ==
  (pc = "failed" /\ error = "provision" /\ inflight = {}) =>
    \A name \in DOMAIN worktreePaths : name \notin worktrees

\* ------------------------------------------------------------------
\* C7: when a tmux command fails while a session of the feature is built
\* or injected, the worktree created for the feature has been deleted when
\* the error reaches the caller.
\* ------------------------------------------------------------------
C7_WorktreeRolledBack ==
  (pc = "failed" /\ error = "session" /\ ~options.skipWorktree) =>
    config.features[1].name \notin worktrees

\* ------------------------------------------------------------------
\* C8: the state document exists only once every worktree was created and
\* every session of every feature was built, injected and annotated; a run
\* that failed has written none.
\* ------------------------------------------------------------------
C8_StateOnlyAfterSuccess ==
  /\ stateDoc # <<>> =>
       /\ pc = "done" /\ error = "none"
       /\ stateDoc = <<JSONstringify(BuildState)>>
       /\ \A i \in DOMAIN orderedFeatures : FeatureComplete(orderedFeatures[i])
  /\ pc = "failed" => stateDoc = <<>>

C8_Witness ==
  /\ stateDoc # <<>>
  /\ Len(orderedFeatures) = 3
  /\ Len(orderedFeatures[1].sessions) = 2
  /\ orderedFeatures[1].sessions[1].prompts = <<"vim">>

\* ------------------------------------------------------------------
\* C9: createTmuxSession on an id that already exists returns the id at
\* once, without error and without any command after has-session; panes
\* are only ever added to a session the current call has created, so a
\* second call for the same feature and session adds none.
\* ------------------------------------------------------------------
ExistingSessionReturned ==
  (pc = "sessions" /\ bpc = "has" /\ CurId \in DOMAIN tmux) =>
    /\ pc' = "sessions" /\ bpc' = "inject"
    /\ sessionName' = CurId
    /\ tmux' = tmux
    /\ tmuxCalls' = Append(tmuxCalls, TmuxCall("has-session", -1, ""))

BuildCommandsOnlyForOwnSession ==
  /\ \A id \in DOMAIN tmux : tmux'[id] # tmux[id] => CreatedInCall(id)
  /\ \A i \in DOMAIN tmuxCalls' :
       (i \notin DOMAIN tmuxCalls /\
        tmuxCalls'[i].cmd \in {"new-session", "split-window", "select-layout",
                               "rename-window"}) =>
         tmuxCalls'[i].session \notin DOMAIN tmux \/ CreatedInCall(tmuxCalls'[i].session)

C9_ExistingSessionUntouched ==
  [][ExistingSessionReturned /\ BuildCommandsOnlyForOwnSession]_vars

C9_Witness ==
  /\ calls = 2
  /\ BuilderReturned
  /\ tmuxCalls = <<TmuxCall("has-session", -1, "")>>
  /\ sessionName = CurId
  /\ CurSession.panes > 1
  /\ tmux[CurId] = CurSession.panes

\* ------------------------------------------------------------------
\* C10: a session that createTmuxSession has created for a spec with n
\* panes, no command failing, was split exactly n - 1 times and has n
\* panes.
\* ------------------------------------------------------------------
C10_SplitsArePanesMinusOne ==
  (BuilderReturned /\ CreatedInCall(sessionName)) =>
    /\ sessionName = CurId
    /\ Cardinality(IssuedFor(sessionName, "split-window")) = CurSession.panes - 1
    /\ tmux[sessionName] = CurSession.panes

C10_Witness ==
  /\ BuilderReturned /\ CreatedInCall(sessionName)
  /\ CurSession.panes = MaxPanes
  /\ Cardinality(IssuedFor(sessionName, "split-window")) = MaxPanes - 1

\* ------------------------------------------------------------------
\* Notions used by the injection properties
\* ------------------------------------------------------------------
\* the arguments of the send-keys commands issued for pane p of session id,
\* in the order issued
KeysTo(id, p) ==
  LET hits == SelectSeq(tmuxCalls, LAMBDA c :
                c.cmd = "send-keys" /\ c.session = id /\ c.pane = p)
  IN [i \in DOMAIN hits |-> hits[i].arg]

\* pane p (0-based) of the session has a non-empty prompt
HasPrompt(session, p) ==
  p + 1 \in DOMAIN session.prompts /\ session.prompts[p + 1] # ""

Injection(session, p) == <<"C-c", session.prompts[p + 1], ExecutionHint>>

\* ------------------------------------------------------------------
\* C11: every send-keys command targets a pane whose index has a
\* non-empty prompt and carries the interrupt, that prompt or the hint;
\* once the call is over each pane with a non-empty prompt got exactly its
\* own injection and every other pane (empty prompt, no prompt, empty
\* prompt list) got no key at all.
\* ------------------------------------------------------------------
C11_PromptPerPane ==
  LET f == config.features[1]
  IN /\ \A i \in DOMAIN tmuxCalls :
          tmuxCalls[i].cmd = "send-keys" =>
            \E j \in DOMAIN f.sessions :
              /\ tmuxCalls[i].session = getSessionName(f.name, f.sessions[j].name)
              /\ HasPrompt(f.sessions[j], tmuxCalls[i].pane)
              /\ tmuxCalls[i].arg \in Range(Injection(f.sessions[j], tmuxCalls[i].pane))
     /\ pc = "done" =>
          \A j \in DOMAIN f.sessions : \A p \in 0..MaxPanes :
            KeysTo(getSessionName(f.name, f.sessions[j].name), p) =
              IF HasPrompt(f.sessions[j], p)
              THEN Injection(f.sessions[j], p) ELSE <<>>

C11_Witness ==
  /\ pc = "done"
  /\ Len(config.features[1].sessions) = 1
  /\ CurSession.panes = 3
  /\ CurSession.prompts = <<"", "vim">>
  /\ tmux[CurId] = 3
  /\ KeysTo(CurId, 0) = <<>>
  /\ KeysTo(CurId, 1) = <<"C-c", "vim", ExecutionHint>>
  /\ KeysTo(CurId, 2) = <<>>

\* ------------------------------------------------------------------
\* C12: no send-keys command of a run makes a pane receive the Enter key.
\* ------------------------------------------------------------------
C12_NoSubmitKeySent ==
  \A i \in DOMAIN tmuxCalls :
    tmuxCalls[i].cmd = "send-keys" =>
      KeyLookup(tmuxCalls[i].arg) # [kind |-> "key", value |-> "Enter"]

\* ------------------------------------------------------------------
\* C13: loadOrchestraState never raises; with no document it returns the
\* absent value, and once saveOrchestraState(s) has completed it returns s.
\* ------------------------------------------------------------------
C13_LoadReturnsSavedOrAbsent ==
  loaded.called =>
    /\ ~loaded.raised
    /\ loaded.at = pc =>
         IF stateDoc = <<>>
         THEN ~loaded.found /\ loaded.state = <<>>
         ELSE loaded.found /\ loaded.state = <<BuildState>>

C13_Witness ==
  /\ loaded.at = "done" /\ loaded.found
  /\ loaded.state = <<BuildState>>
  /\ Len(orderedFeatures) = 3
  /\ Len(orderedFeatures[1].sessions) = 2

\* ------------------------------------------------------------------
\* C14 (as stated): what load returns after a run that failed differs from
\* what it returns on a project that was never orchestrated.
\* ------------------------------------------------------------------
C14_FailedRunDistinguished ==
  (loaded.called /\ loaded.at = "failed") =>
    LoadOutcome(loaded.raised, loaded.found, loaded.state) # loadOrchestraState(<<>>)

\* C14 (amended): load returns the same absent value before any run and
\* after a run that failed, whatever the failure left behind; it returns a
\* document only after a run that saved one.
C14_AbsentUnlessSaved ==
  loaded.called =>
    /\ loaded.at \in {"start", "failed"} =>
         LoadOutcome(loaded.raised, loaded.found, loaded.state) = loadOrchestraState(<<>>)
    /\ loaded.found => (loaded.at = "done" /\ error = "none" /\ ~options.dryRun)

C14_Witness ==
  /\ loaded.at = "failed" /\ ~loaded.found
  /\ error = "session"
  /\ worktrees # {}
  /\ tmuxCalls # <<>>

\* ------------------------------------------------------------------
\* C15: the saved document has status active, lists the resolved features
\* in resolved order, each with status created and its worktree path, and
\* every configured session of each with status created, its configured
\* pane count and attached_count 0.
\* ------------------------------------------------------------------
C15_SavedDocumentContent ==
  stateDoc # <<>> =>
    LET s == JSONparse(stateDoc[1]).val
    IN /\ s.status = "active"
       /\ Len(s.features) = Len(resolved.order)
       /\ \A i \in DOMAIN s.features :
            LET f == FindFeature(config, resolved.order[i])[1]
            IN /\ s.features[i].feature = resolved.order[i]
               /\ s.features[i].status = "created"
               /\ s.features[i].worktree_path = WorktreePath(f.name)
               /\ f.name \in worktrees
               /\ Len(s.features[i].sessions) = Len(f.sessions)
               /\ \A j \in DOMAIN f.sessions :
                    /\ s.features[i].sessions[j].name = f.sessions[j].name
                    /\ s.features[i].sessions[j].status = "created"
                    /\ s.features[i].sessions[j].panes = f.sessions[j].panes
                    /\ s.features[i].sessions[j].attached_count = 0

C15_Witness ==
  /\ stateDoc # <<>>
  /\ resolved.order = <<"auth", "api", "ui">>
  /\ config.features[1].name = "ui"
  /\ Len(config.features[1].sessions) = 2
  /\ config.features[1].sessions[1].panes = 2

\* ------------------------------------------------------------------
\* C16: when only the final write of the state document fails, the run is
\* reported as successful and every worktree and session it created is
\* still there.
\* ------------------------------------------------------------------
C16_SaveFailureIsWarning ==
  error = "save" =>
    /\ pc = "done"
    /\ \A i \in DOMAIN orderedFeatures : FeatureComplete(orderedFeatures[i])

\* ------------------------------------------------------------------
\* Notions used by the ordering properties
\* ------------------------------------------------------------------
\* <<feature index in resolved order, session index>> of every session
SessionPairs ==
  {pr \in (DOMAIN orderedFeatures) \X (1..MaxSessions) :
     pr[2] \in DOMAIN orderedFeatures[pr[1]].sessions}

SessionIdAt(pr) ==
  getSessionName(orderedFeatures[pr[1]].name,
                 orderedFeatures[pr[1]].sessions[pr[2]].name)

\* 0 for the commands of createTmuxSession, 1 for those of injectPrompts
Phase(c) == IF c.cmd = "send-keys" THEN 1 ELSE 0

\* c1 may be issued before c2: earlier feature, or earlier session of the
\* feature, or building before injecting, or a pane before the next
InOrder(p1, c1, p2, c2) ==
  \/ p1[1] < p2[1]
  \/ p1[1] = p2[1] /\ p1[2] < p2[2]
  \/ p1 = p2 /\ Phase(c1) < Phase(c2)
  \/ p1 = p2 /\ Phase(c1) = Phase(c2) /\ c1.pane <= c2.pane

\* ------------------------------------------------------------------
\* C17: in sequential provisioning the creations are issued in the order
\* of the supplied features, each only once the one before it has
\* completed, and none is issued after a creation that failed.
\* ------------------------------------------------------------------
C17_SequentialStopsAtFirstFailure ==
  (entry = "implement" /\ options.sequential) =>
    /\ inflight = {}
    /\ Len(gitCalls) <= Len(orderedFeatures)
    /\ \A i \in DOMAIN gitCalls :
         /\ gitCalls[i] = CreateCall(orderedFeatures[i])
         /\ i < Len(gitCalls) => gitCalls[i].branch \in DOMAIN worktreePaths
    /\ error = "provision" =>
         gitCalls[Len(gitCalls)].branch \notin DOMAIN worktreePaths

C17_Witness ==
  /\ options.sequential
  /\ pc = "failed" /\ error = "provision"
  /\ Len(orderedFeatures) = 3
  /\ Len(gitCalls) = 2
  /\ worktrees = {orderedFeatures[1].name}

\* ------------------------------------------------------------------
\* C18: in parallel provisioning, when the failure of a creation reaches
\* the caller no other creation of the batch is still outstanding.
\* ------------------------------------------------------------------
C18_FailureAfterAllSettled ==
  (entry = "implement" /\ ~options.sequential /\ pc = "failed"
   /\ error = "provision") => inflight = {}

\* ------------------------------------------------------------------
\* C19: with sequential provisioning every creation is issued when the
\* worktree of each dependency of its feature has been created, and no
\* feature has more than one creation call.
\* ------------------------------------------------------------------
C19_DependencyWorktreeFirst ==
  (entry = "implement" /\ options.sequential) =>
    \A i \in DOMAIN gitCalls :
      /\ gitCalls[i].op = "createWorktree"
      /\ \A j \in DOMAIN gitCalls : gitCalls[j].branch = gitCalls[i].branch => j = i
      /\ \A d \in Edges(config, gitCalls[i].branch) :
           /\ d \in worktrees
           /\ \E j \in 1..(i - 1) : gitCalls[j].branch = d

C19_Witness ==
  /\ options.sequential
  /\ config.features[1].name = "ui"
  /\ DepsOf(config, "ui") = <<"auth", "api">>
  /\ Len(gitCalls) = 3 /\ gitCalls[3].branch = "ui"
  /\ worktrees = {"auth", "api", "ui"}

\* ------------------------------------------------------------------
\* C20: in every run, parallel or sequential, the tmux commands are issued
\* one at a time, feature by feature in resolved order, session by session
\* in configured order, the building of a session before its injection,
\* and the panes of a session in increasing order: each command issued
\* comes, in that order, at or after the one issued before it.
\* ------------------------------------------------------------------
SessionPos(id) == CHOOSE pr \in SessionPairs : SessionIdAt(pr) = id

NextCommandInOrder ==
  (entry = "implement" /\ tmuxCalls' # tmuxCalls) =>
    LET c == tmuxCalls'[Len(tmuxCalls')]
    IN /\ tmuxCalls' = Append(tmuxCalls, c)
       /\ inflight = {}
       /\ SessionPos(c.session) = <<fi, si>>
       /\ tmuxCalls # <<>> =>
            InOrder(SessionPos(tmuxCalls[Len(tmuxCalls)].session),
                    tmuxCalls[Len(tmuxCalls)], SessionPos(c.session), c)

C20_SessionsBuiltInOrder == [][NextCommandInOrder]_vars

C20_Witness ==
  /\ ~options.sequential
  /\ pc = "done" /\ stateDoc # <<>>
  /\ config.features[1].name = "ui" /\ orderedFeatures[1].name = "auth"
  /\ Len(orderedFeatures) = 3
  /\ \A i \in 1..3 :
       /\ Len(orderedFeatures[i].sessions) = 2
       /\ \A j \in 1..2 :
            KeysTo(getSessionName(orderedFeatures[i].name,
                                  orderedFeatures[i].sessions[j].name), 1)
              = <<"C-c", "vim", ExecutionHint>>

\* ------------------------------------------------------------------
\* Notions used by the session id properties
\* ------------------------------------------------------------------
\* the (feature, session) pairs of the configuration
ConfiguredPairs ==
  {pr \in ConfigNames(config) \X IdSessionNames :
     \E j \in DOMAIN FindFeature(config, pr[1])[1].sessions :
       FindFeature(config, pr[1])[1].sessions[j].name = pr[2]}

\* the id computed for a pair
IdOfPair(pr) ==
  LET f == FindFeature(config, pr[1])[1]
  IN sessionMap[pr[1]][CHOOSE j \in DOMAIN f.sessions : f.sessions[j].name = pr[2]]

\* the string featureName-sessionName
RawName(pr) == Chars(pr[1]) \o <<"-">> \o Chars(pr[2])

NamesComputed == entry = "getSessionName" /\ pc = "done"

\* ------------------------------------------------------------------
\* C21: in a configuration with distinct feature names and session names
\* distinct within each feature, two different (feature, session) pairs
\* never get the same session id.
\* ------------------------------------------------------------------
C21_SessionIdsUnique ==
  NamesComputed =>
    \A p1 \in ConfiguredPairs : \A p2 \in ConfiguredPairs :
      p1 # p2 => IdOfPair(p1) # IdOfPair(p2)

\* ------------------------------------------------------------------
\* C23: the session id is the string featureName-sessionName with every
\* character outside [A-Za-z0-9-] replaced by '-', cut to its first 30
\* characters; it has at most 30 characters, all of them letters, digits
\* or '-', and deriving an id from an id gives the same id.
\* ------------------------------------------------------------------
C23_SessionIdDerivation ==
  NamesComputed =>
    \A pr \in ConfiguredPairs :
      LET id == IdOfPair(pr)
          raw == RawName(pr)
      IN /\ Len(id) = IF Len(raw) < 30 THEN Len(raw) ELSE 30
         /\ \A i \in DOMAIN id :
              /\ id[i] \in AllowedChars
              /\ id[i] = IF raw[i] \in AllowedChars THEN raw[i] ELSE "-"
         /\ Truncate(Sanitize(id)) = id

C23_Witness ==
  /\ NamesComputed
  /\ <<"payment_gateway", "integration_tests">> \in ConfiguredPairs
  /\ Len(RawName(<<"payment_gateway", "integration_tests">>)) = 33
  /\ Len(IdOfPair(<<"payment_gateway", "integration_tests">>)) = 30
  /\ IdOfPair(<<"payment_gateway", "integration_tests">>)[8] = "-"

\* ------------------------------------------------------------------
\* C22: in a run no feature name has more than one creation request, and
\* once createWorktrees has returned the map holds, for every provisioned
\* feature and for nothing else, the path of its worktree.
\* ------------------------------------------------------------------
ProvisionReturned == pc \in {"install", "sessions", "save", "done"} /\ ~options.dryRun

C22_OneWorktreePerFeature ==
  entry = "implement" =>
    /\ \A i \in DOMAIN gitCalls : \A j \in DOMAIN gitCalls :
         gitCalls[i].branch = gitCalls[j].branch => i = j
    /\ ProvisionReturned =>
         /\ DOMAIN worktreePaths = {orderedFeatures[i].name : i \in DOMAIN orderedFeatures}
         /\ Len(gitCalls) = Len(orderedFeatures)
         /\ \A n \in DOMAIN worktreePaths :
              worktreePaths[n] = WorktreePath(n) /\ n \in worktrees

C22_Witness ==
  /\ ~options.sequential
  /\ pc = "install"
  /\ Len(orderedFeatures) = 3
  /\ DOMAIN worktreePaths = {"auth", "api", "ui"}

\* ------------------------------------------------------------------
\* C24: no send-keys command is issued for a pane index at or beyond the
\* pane count of its session, and prompts beyond the pane count do not
\* make the injection fail.
\* ------------------------------------------------------------------
C24_ExtraPromptsIgnored ==
  /\ \A i \in DOMAIN tmuxCalls :
       tmuxCalls[i].cmd = "send-keys" =>
         \A j \in DOMAIN config.features[1].sessions :
           tmuxCalls[i].session =
               getSessionName(config.features[1].name, config.features[1].sessions[j].name)
             => tmuxCalls[i].pane < config.features[1].sessions[j].panes
  /\ (pc = "failed" /\ error = "session" /\ bpc \in {"cc", "text", "hint"}) =>
       k < CurSession.panes

\* ------------------------------------------------------------------
\* C25: a run goes through resolving, provisioning, session building and
\* persisting in that order and never back, and a failure leads through
\* rolling back to the failed end: when the run is failed the worktrees it
\* had created are gone. A tmux command is issued only during session
\* building, for a feature whose worktree creation has completed
\* successfully, and the state document is written only after the session
\* building of every feature.
\* ------------------------------------------------------------------
Stage(p) ==
  IF p \in {"start", "validate", "resolve"} THEN 1
  ELSE IF p \in {"provision", "install"} THEN 2
  ELSE IF p = "sessions" THEN 3
  ELSE IF p \in {"save", "done"} THEN 4
  ELSE 5

StageStep ==
  entry = "implement" =>
    /\ pc \in {"done", "failed"} => pc' = pc
    /\ Stage(pc') >= Stage(pc)
    /\ Stage(pc') <= Stage(pc) + 1 \/ pc' = "failed" \/ (options.dryRun /\ pc = "resolve")
    /\ tmuxCalls' # tmuxCalls =>
         /\ pc = "sessions"
         /\ CurFeature.name \in DOMAIN worktreePaths
         /\ CurFeature.name \in worktrees
         /\ inflight = {}
         /\ stateDoc = <<>>
    /\ stateDoc' # stateDoc =>
         /\ pc = "save" /\ pc' = "done"
         /\ fi > Len(orderedFeatures)
         /\ \A i \in DOMAIN orderedFeatures : FeatureComplete(orderedFeatures[i])

\* the step that ends a run in failure has undone what the run created
RolledBackWhenFailed ==
  (entry = "implement" /\ pc # "failed" /\ pc' = "failed" /\ inflight = {}) =>
    \A n \in DOMAIN worktreePaths : n \notin worktrees'

C25_StagesInOrder == [][StageStep /\ RolledBackWhenFailed]_vars

\* ------------------------------------------------------------------
\* C26: every worktree creation names the base of its feature when the
\* feature declares one, and the default base otherwise.
\* ------------------------------------------------------------------
C26_OwnBaseUsed ==
  \A i \in DOMAIN gitCalls :
    gitCalls[i].op = "createWorktree" =>
      LET f == FindFeature(config, gitCalls[i].branch)[1]
      IN gitCalls[i].base = IF f.base # "unset" THEN f.base ELSE "main"

\* ------------------------------------------------------------------
\* C27: a dry run creates nothing: no worktree command, no tmux command,
\* no change of a tmux session, no CLAUDE.md and no state document.
\* ------------------------------------------------------------------
C27_DryRunCreatesNothing ==
  (entry = "implement" /\ options.dryRun) =>
    /\ gitCalls = <<>> /\ worktrees = {} /\ inflight = {}
    /\ worktreePaths = EmptyMap
    /\ tmuxCalls = <<>> /\ tmux \in EarlierSessions(config)
    /\ claudeMd = {} /\ stateDoc = <<>>
    /\ pc \in {"start", "validate", "resolve", "done", "failed"}

C27_Witness ==
  /\ options.dryRun
  /\ pc = "done"
  /\ resolved = [status |-> "ok", order |-> <<"auth", "api", "ui">>]
  /\ Len(config.features[1].sessions) = 2

C30_CreatedSessionsKilled ==
  (entry = "implement" /\ pc = "failed" /\ error \in {"session", "context"}) =>
    /\ \A id \in SessionIds(config) : CreatedInCall(id) => id \notin DOMAIN tmux
    /\ \A id \in SessionIds(config) :
         (~CreatedInCall(id) /\ IssuedFor(id, "has-session") # {}) => id \in DOMAIN tmux

\* ------------------------------------------------------------------
\* C29: after an attach through the orchestra attach action the attach
\* counter of the selected session in the state document is one higher
\* than before (it was 0), and every other counter is unchanged.
\* ------------------------------------------------------------------
C29_AttachCounted ==
  attach.done =>
    LET doc == JSONparse(stateDoc[1]).val
    IN \A i \in DOMAIN doc.features : \A j \in DOMAIN doc.features[i].sessions :
         doc.features[i].sessions[j].attached_count =
           IF doc.features[i].sessions[j].session_name = attach.session THEN 1 ELSE 0

\* ------------------------------------------------------------------
\* Notions used by the builder properties
\* ------------------------------------------------------------------
\* the commands of createTmuxSession issued for a session id, in order
BuildCommands(id) ==
  SelectSeq(tmuxCalls, LAMBDA c : c.session = id /\ c.cmd # "send-keys")

\* the commands of a complete build of a new session
ExpectedBuild(feature, session) ==
  LET id == getSessionName(feature.name, session.name)
      cmd(c, a) == [cmd |-> c, session |-> id, pane |-> -1, arg |-> a]
  IN <<cmd("has-session", ""), cmd("new-session", "")>>
     \o [i \in 1..(session.panes - 1) |->
           cmd("split-window",
               IF session.layout \in {"even-horizontal", "main-horizontal"} THEN "-h"
               ELSE IF session.layout \in {"even-vertical", "main-vertical"} THEN "-v"
               ELSE IF i % 2 = 0 THEN "-h" ELSE "-v")]
     \o (IF session.layout # "none" THEN <<cmd("select-layout", session.layout)>>
         ELSE <<>>)
     \o <<cmd("rename-window", session.name)>>

IsPrefix(a, b) == Len(a) <= Len(b) /\ a = SubSeq(b, 1, Len(a))

\* ------------------------------------------------------------------
\* C31: every send-keys command that writes a prompt follows directly the
\* send-keys command of the interrupt to the same session and pane.
\* ------------------------------------------------------------------
C31_InterruptBeforePrompt ==
  \A i \in DOMAIN tmuxCalls :
    (tmuxCalls[i].cmd = "send-keys" /\ tmuxCalls[i].arg \notin {"C-c", ExecutionHint}) =>
      /\ i > 1
      /\ tmuxCalls[i - 1] = [tmuxCalls[i] EXCEPT !.arg = "C-c"]

C31_Witness ==
  /\ pc = "sessions" /\ bpc = "hint" /\ k = 1
  /\ Len(tmuxCalls) >= 2
  /\ tmuxCalls[Len(tmuxCalls)] =
       [cmd |-> "send-keys", session |-> CurId, pane |-> 1, arg |-> "vim"]
  /\ tmuxCalls[Len(tmuxCalls) - 1] =
       [cmd |-> "send-keys", session |-> CurId, pane |-> 1, arg |-> "C-c"]

\* ------------------------------------------------------------------
\* C32: the i-th split of a session (the one that creates pane index i)
\* is horizontal for the layouts even-horizontal and main-horizontal,
\* vertical for even-vertical and main-vertical, and otherwise horizontal
\* for an even i and vertical for an odd i.
\* ------------------------------------------------------------------
C32_SplitOrientation ==
  \A j \in DOMAIN config.features[1].sessions :
    LET session == config.features[1].sessions[j]
        splits == SelectSeq(BuildCommands(getSessionName(config.features[1].name,
                                                         session.name)),
                            LAMBDA c : c.cmd = "split-window")
    IN \A i \in DOMAIN splits :
         /\ i <= session.panes - 1
         /\ session.layout \in {"even-horizontal", "main-horizontal"} => splits[i].arg = "-h"
         /\ session.layout \in {"even-vertical", "main-vertical"} => splits[i].arg = "-v"
         /\ session.layout \in {"tiled", "none"} =>
              splits[i].arg = IF i % 2 = 0 THEN "-h" ELSE "-v"

C32_Witness ==
  /\ BuilderReturned
  /\ CurSession.layout = "tiled" /\ CurSession.panes = 3
  /\ SelectSeq(BuildCommands(CurId), LAMBDA c : c.cmd = "split-window")
       = <<TmuxCall("split-window", -1, "-v"), TmuxCall("split-window", -1, "-h")>>

\* ------------------------------------------------------------------
\* C33: the commands issued for a session the call creates are a prefix
\* of: has-session, new-session, panes - 1 splits, select-layout when a
\* layout is set, rename-window; all of them have been issued when the
\* builder returns, and when a split or the layout command fails the call
\* fails with that command as the last one issued.
\* ------------------------------------------------------------------
C33_LayoutAfterSplitsRenameLast ==
  /\ \A j \in DOMAIN config.features[1].sessions :
       LET session == config.features[1].sessions[j]
           id == getSessionName(config.features[1].name, session.name)
       IN CreatedInCall(id) =>
            IsPrefix(BuildCommands(id), ExpectedBuild(config.features[1], session))
  /\ (BuilderReturned /\ CreatedInCall(CurId)) =>
       BuildCommands(CurId) = ExpectedBuild(CurFeature, CurSession)
  /\ (pc = "failed" /\ error = "session" /\ bpc \in {"split", "layout"}) =>
       /\ tmuxCalls[Len(tmuxCalls)].cmd = IF bpc = "split" THEN "split-window"
                                          ELSE "select-layout"
       /\ IssuedFor(CurId, "rename-window") = {}
       /\ bpc = "split" => IssuedFor(CurId, "select-layout") = {}

C33_Witness ==
  /\ pc = "failed" /\ error = "session" /\ bpc = "layout"
  /\ CurSession.panes = 3 /\ CurSession.layout = "main-vertical"
  /\ Cardinality(IssuedFor(CurId, "split-window")) = 2
  /\ IssuedFor(CurId, "rename-window") = {}

\* ------------------------------------------------------------------
\* C38: no send-keys command (interrupt, prompt or hint) goes to a
\* session the builder found existing: every send-keys of a run targets
\* a session the run itself created.
\* ------------------------------------------------------------------
C38_NoKeysToExistingSession ==
  \A i \in DOMAIN tmuxCalls :
    tmuxCalls[i].cmd = "send-keys" => CreatedInCall(tmuxCalls[i].session)

\* ------------------------------------------------------------------
\* C40: whenever the builder has returned an id without error, in a first
\* call or in a later one, the session has as many panes as its spec says.
\* ------------------------------------------------------------------
C40_ReturnedSessionHasSpecPanes ==
  BuilderReturned => tmux[sessionName] = CurSession.panes

\* ------------------------------------------------------------------
\* C37: when every external command returns, a run of implementCommand
\* ends: it reaches its end (state saved, or the plan printed for a dry
\* run) or a reported failure, and stays there.
\* ------------------------------------------------------------------
C37_RunEnds == <>[](pc \in {"done", "failed"})

C37_Witness ==
  /\ pc = "done" /\ ~options.dryRun
  /\ stateDoc = <<JSONstringify(BuildState)>>
  /\ Len(orderedFeatures) = 2
  /\ \E i \in DOMAIN tmuxCalls : tmuxCalls[i].cmd = "send-keys"
  /\ \E i \in DOMAIN tmuxCalls : tmuxCalls[i].cmd = "split-window"

\* ------------------------------------------------------------------
\* Notions used by the properties of two runs
\* ------------------------------------------------------------------
FileCall(op, r) == [op |-> op, run |-> r]

\* the last two operations on the document are the open and the write of
\* one save of run r
SaveJustCompleted(r) ==
  /\ Len(fileCalls) >= 2
  /\ fileCalls[Len(fileCalls) - 1] = FileCall("open", r)
  /\ fileCalls[Len(fileCalls)] = FileCall("write", r)

\* ------------------------------------------------------------------
\* C34: when a save has just completed, whatever was saved before it, the
\* document is the text of the saved state and loading returns exactly
\* that state: nothing of an earlier state remains.
\* ------------------------------------------------------------------
C34_SaveReplacesDocument ==
  \A r \in DOMAIN runs :
    SaveJustCompleted(r) =>
      /\ stateDoc = <<JSONstringify(PairState(r))>>
      /\ loadOrchestraState(stateDoc) = LoadOutcome(FALSE, TRUE, <<PairState(r)>>)

C34_Witness ==
  /\ fileCalls = <<FileCall("open", 1), FileCall("write", 1),
                   FileCall("open", 2), FileCall("write", 2)>>
  /\ runs[1].plan.sessions # <<>> /\ runs[2].plan.sessions = <<>>
  /\ loadOrchestraState(stateDoc) = LoadOutcome(FALSE, TRUE, <<PairState(2)>>)

\* ------------------------------------------------------------------
\* C35: once both runs have written their state the document is the
\* complete state of the run that wrote last.
\* ------------------------------------------------------------------
C35_LastWriterWins ==
  (runs # <<>> /\ \A r \in RunIds : runs[r].pc = "done") =>
    stateDoc = <<JSONstringify(PairState(fileCalls[Len(fileCalls)].run))>>

\* ------------------------------------------------------------------
\* C36: when two runs have both seen the same session id absent and both
\* issued new-session for it, at least one of them failed on new-session.
\* ------------------------------------------------------------------
IssuedCreate(r) ==
  runs[r].saw = "absent" /\ (runs[r].pc \notin {"new"} )

C36_CheckThenCreateRace ==
  \A a, b \in DOMAIN runs :
    (/\ a # b
     /\ runs[a].plan.sessions # <<>> /\ runs[b].plan.sessions # <<>>
     /\ PairId(a) = PairId(b)
     /\ IssuedCreate(a) /\ IssuedCreate(b)) =>
      runs[a].error = "new" \/ runs[b].error = "new"

C36_Witness ==
  /\ runs # <<>>
  /\ runs[1].saw = "absent" /\ runs[2].saw = "absent"
  /\ runs[1].plan.name # runs[2].plan.name
  /\ runs[1].pc = "done" /\ runs[2].error = "new"
  /\ Cardinality({i \in DOMAIN tmuxCalls :
                    tmuxCalls[i] = PairTmuxCall(1, "new-session", "")}) = 2
  /\ SelectSeq(tmuxCalls, LAMBDA c : c.cmd \in {"has-session", "new-session"})
       = <<PairTmuxCall(1, "has-session", ""), PairTmuxCall(2, "has-session", ""),
           PairTmuxCall(1, "new-session", ""), PairTmuxCall(2, "new-session", "")>>

\* ------------------------------------------------------------------
\* C39: the session_name recorded in the persisted state is the id the
\* builder returned for the session.
\* ------------------------------------------------------------------
C39_RecordedNameIsBuilderId ==
  \A r \in DOMAIN runs :
    (/\ runs[r].pc = "done" /\ runs[r].plan.sessions # <<>>
     /\ stateDoc = <<JSONstringify(PairState(r))>>) =>
      loadOrchestraState(stateDoc).state[1].features[1].sessions[1].session_name
        = runs[r].sessionName

====
